---- MODULE Spec2Model ----
(***************************************************************************)
(* MusicAbility (app.py): the MIDI / WAV rendering core and the generate   *)
(* flow of the Streamlit script.                                           *)
(*                                                                         *)
(* Representation.  A Python str is a sequence of characters, each a       *)
(* string: an ASCII character is itself ("C", "4", " ", "\t"), any other   *)
(* is its code point ("U+0664").  A bytes object is a sequence of integers *)
(* in 0..255.  A Python int is an integer of TLC (below 2^31 in size); a   *)
(* Python float is an IEEE 754 double, computed exactly as the hardware    *)
(* does.  A list that is sorted has fewer than 64 elements.                *)
(***************************************************************************)
EXTENDS Integers, Sequences, FiniteSets, TLC

VARIABLES
    pitch_str,    \* argument of pitch_to_midi
    midi,         \* its outcome
    value,        \* argument of _encode_varint
    varint,       \* its outcome
    music_json,   \* the score handed to build_midi / synthesize_wav
    midi_bytes,   \* outcome of build_midi
    wav_bytes,    \* outcome of synthesize_wav
    pc,           \* position of the script run (generate flow)
    response,     \* what the remote model answers in this run
    env,          \* the environment variables of the process
    speech,       \* the recording and what the speech service answers
    ui            \* what the user did and what the script has shown

vars == <<pitch_str, midi, value, varint, music_json, midi_bytes, wav_bytes,
          pc, response, env, speech, ui>>

Range(s) == {s[i] : i \in 1..Len(s)}

(***************************************************************************)
(* Small helpers on sequences and integers.                                *)
(***************************************************************************)
RECURSIVE Reverse(_)
Reverse(s) ==
    IF s = <<>> THEN <<>> ELSE Append(Reverse(Tail(s)), Head(s))

Max2(a, b) == IF a >= b THEN a ELSE b
Min2(a, b) == IF a <= b THEN a ELSE b

(***************************************************************************)
(* Natural numbers of any size.  TLC's integers are 32 bits wide, Python's *)
(* are unbounded and a float carries a 53-bit significand, so the float    *)
(* arithmetic below works on numbers written least significant limb first  *)
(* in base 2^15, without high zero limbs (zero is <<>>).                   *)
(***************************************************************************)
LimbBits == 15
Base == 2 ^ LimbBits

\* Without its high zero limbs.
BNTrim(a) ==
    IF \A i \in 1..Len(a) : a[i] = 0 THEN <<>>
    ELSE SubSeq(a, 1, CHOOSE i \in 1..Len(a) :
                        a[i] # 0 /\ \A j \in (i + 1)..Len(a) : a[j] = 0)

RECURSIVE BNFromNat(_)
BNFromNat(n) ==
    IF n = 0 THEN <<>> ELSE <<n % Base>> \o BNFromNat(n \div Base)

RECURSIVE BNToNat(_)
BNToNat(a) ==
    IF a = <<>> THEN 0 ELSE Head(a) + Base * BNToNat(Tail(a))

Limb(a, i) == IF i <= Len(a) THEN a[i] ELSE 0

\* The operations that pass a carry along the limbs are computed on the two
\* halves of the range lo..hi in turn: [s, c] is the limbs of the range and
\* the carry out of it.  The test of the first half's carry (never
\* negative) makes TLC finish that half before it starts the other.
RECURSIVE BNAddRange(_, _, _, _, _)
BNAddRange(a, b, lo, hi, c) ==
    IF lo > hi THEN [s |-> <<>>, c |-> c]
    ELSE IF lo = hi
    THEN LET t == Limb(a, lo) + Limb(b, lo) + c
         IN  [s |-> <<t % Base>>, c |-> t \div Base]
    ELSE LET mid  == (lo + hi) \div 2
             low  == BNAddRange(a, b, lo, mid, c)
         IN  IF low.c < 0 THEN low
             ELSE LET high == BNAddRange(a, b, mid + 1, hi, low.c)
                  IN  [s |-> low.s \o high.s, c |-> high.c]

\* The limbs of t with its carry, if any, as the highest limb.
WithCarry(t) == IF t.c = 0 THEN t.s ELSE Append(t.s, t.c)

BNAdd(a, b) ==
    WithCarry(BNAddRange(a, b, 1,
                         IF Len(a) > Len(b) THEN Len(a) ELSE Len(b), 0))

\* a - b for a >= b
RECURSIVE BNSubRange(_, _, _, _, _)
BNSubRange(a, b, lo, hi, c) ==
    IF lo > hi THEN [s |-> <<>>, c |-> c]
    ELSE IF lo = hi
    THEN LET t == a[lo] - Limb(b, lo) - c
         IN  [s |-> <<t % Base>>, c |-> IF t < 0 THEN 1 ELSE 0]
    ELSE LET mid  == (lo + hi) \div 2
             low  == BNSubRange(a, b, lo, mid, c)
         IN  IF low.c < 0 THEN low
             ELSE LET high == BNSubRange(a, b, mid + 1, hi, low.c)
                  IN  [s |-> low.s \o high.s, c |-> high.c]

BNSub(a, b) == BNTrim(BNSubRange(a, b, 1, Len(a), 0).s)

\* -1, 0, 1 as a < b, a = b, a > b
BNCmp(a, b) ==
    IF Len(a) < Len(b) THEN -1
    ELSE IF Len(a) > Len(b) THEN 1
    ELSE IF a = b THEN 0
    ELSE LET i == CHOOSE i \in 1..Len(a) :
                    a[i] # b[i] /\ \A j \in (i + 1)..Len(a) : a[j] = b[j]
         IN  IF a[i] < b[i] THEN -1 ELSE 1

\* a * m + c for 0 < m < Base, 0 <= c < Base
RECURSIVE BNMulRange(_, _, _, _, _)
BNMulRange(a, lo, hi, m, c) ==
    IF lo > hi THEN [s |-> <<>>, c |-> c]
    ELSE IF lo = hi
    THEN LET t == a[lo] * m + c
         IN  [s |-> <<t % Base>>, c |-> t \div Base]
    ELSE LET mid  == (lo + hi) \div 2
             low  == BNMulRange(a, lo, mid, m, c)
         IN  IF low.c < 0 THEN low
             ELSE LET high == BNMulRange(a, mid + 1, hi, m, low.c)
                  IN  [s |-> low.s \o high.s, c |-> high.c]

BNMulSmall(a, m, c) == WithCarry(BNMulRange(a, 1, Len(a), m, c))

RECURSIVE BNMulRaw(_, _)
BNMulRaw(a, b) ==
    IF b = <<>> THEN <<>>
    ELSE BNAdd(BNMulSmall(a, Head(b), 0), <<0>> \o BNMulRaw(a, Tail(b)))

BNMul(a, b) == BNTrim(BNMulRaw(a, b))

\* Quotient and remainder of a by d, 0 < d < Base: from the high limbs
\* down, r being the remainder carried in.
RECURSIVE BNDivRange(_, _, _, _, _)
BNDivRange(a, lo, hi, d, r) ==
    IF lo > hi THEN [q |-> <<>>, r |-> r]
    ELSE IF lo = hi
    THEN LET t == r * Base + a[lo]
         IN  [q |-> <<t \div d>>, r |-> t % d]
    ELSE LET mid  == (lo + hi) \div 2
             high == BNDivRange(a, mid + 1, hi, d, r)
         IN  IF high.r < 0 THEN high
             ELSE LET low == BNDivRange(a, lo, mid, d, high.r)
                  IN  [q |-> low.q \o high.q, r |-> low.r]

TrimQuotient(t) == [q |-> BNTrim(t.q), r |-> t.r]

BNDivSmall(a, d) == TrimQuotient(BNDivRange(a, 1, Len(a), d, 0))

RECURSIVE Zeros(_)
Zeros(n) ==
    IF n = 0 THEN <<>>
    ELSE IF n = 1 THEN <<0>>
    ELSE Zeros(n \div 2) \o Zeros(n - n \div 2)

\* a * 2^n, floor(a / 2^n) and a mod 2^n
BNShl(a, n) ==
    IF a = <<>> THEN <<>>
    ELSE BNTrim(Zeros(n \div LimbBits) \o BNMulSmall(a, 2 ^ (n % LimbBits), 0))

BNShr(a, n) ==
    IF n \div LimbBits >= Len(a) THEN <<>>
    ELSE BNDivSmall(SubSeq(a, n \div LimbBits + 1, Len(a)), 2 ^ (n % LimbBits)).q

BNLow(a, n) ==
    IF n \div LimbBits >= Len(a) THEN a
    ELSE BNTrim(SubSeq(a, 1, n \div LimbBits)
                \o <<a[n \div LimbBits + 1] % (2 ^ (n % LimbBits))>>)

RECURSIVE BitLenSmall(_)
BitLenSmall(x) == IF x = 0 THEN 0 ELSE 1 + BitLenSmall(x \div 2)

BNBitLen(a) ==
    IF a = <<>> THEN 0
    ELSE LimbBits * (Len(a) - 1) + BitLenSmall(a[Len(a)])

BNOdd(a) == a # <<>> /\ a[1] % 2 = 1

\* The largest d in lo..hi with b * d <= r (b * lo <= r is given).
RECURSIVE QuotientLimb(_, _, _, _)
QuotientLimb(r, b, lo, hi) ==
    IF lo = hi THEN lo
    ELSE LET mid == (lo + hi + 1) \div 2
         IN  IF BNCmp(BNMulSmall(b, mid, 0), r) <= 0
             THEN QuotientLimb(r, b, mid, hi)
             ELSE QuotientLimb(r, b, lo, mid - 1)

\* Quotient and remainder of a by b # 0: long division, a limb at a time.
\* The next limb d of a quotient, before the limbs q found so far, and what
\* is left of the remainder r.
BNDivLimb(q, r, b, d) ==
    [q |-> <<d>> \o q, r |-> BNSub(r, BNMulSmall(b, d, 0))]

BNDivStep(q, r, b) == BNDivLimb(q, r, b, QuotientLimb(r, b, 0, Base - 1))

RECURSIVE BNDivLong(_, _)
BNDivLong(a, b) ==
    IF a = <<>> THEN [q |-> <<>>, r |-> <<>>]
    ELSE LET hi == BNDivLong(Tail(a), b)
         IN  BNDivStep(hi.q, BNTrim(<<Head(a)>> \o hi.r), b)

BNDivMod(a, b) == TrimQuotient(BNDivLong(a, b))

(***************************************************************************)
(* Python floats: IEEE 754 binary64, round to nearest, ties to even.       *)
(* A float is [c, neg, m, e]: c = "fin" with the value (-1)^neg * m * 2^e, *)
(* where 2^52 <= m < 2^53, or m < 2^52 and e = MinExp (zero: m = <<>>,     *)
(* e = 0); c = "inf" with its sign; or c = "nan".                          *)
(***************************************************************************)
\* The significand has 53 bits, a finite float is less than 2^1024 and the
\* least positive one is 2^-1074.
Precision == 53
MaxBits == 1024
MinExp == 3 - MaxBits - Precision

DZero(neg) == [c |-> "fin", neg |-> neg, m |-> <<>>, e |-> 0]
DInf(neg) == [c |-> "inf", neg |-> neg, m |-> <<>>, e |-> 0]
DNaN == [c |-> "nan", neg |-> FALSE, m |-> <<>>, e |-> 0]

\* m * 2^e with m <= 2^53, put in the form above.
DNormal(neg, m, e) ==
    IF e + BNBitLen(m) > MaxBits THEN DInf(neg)
    ELSE [c |-> "fin", neg |-> neg, m |-> m, e |-> e]

DFinish(neg, m, e) ==
    IF m = <<>> THEN DZero(neg)
    ELSE DNormal(neg, IF BNBitLen(m) > Precision THEN BNShr(m, 1) ELSE m,
                 IF BNBitLen(m) > Precision THEN e + 1 ELSE e)

\* The float nearest to (n + f) * 2^e, where 0 <= f < 1 and f # 0 exactly
\* when sticky (n then has at least 55 bits).
\* q or q + 1, as the part cut off compares (cmp) with half a unit of q.
RoundHalfEven(q, cmp, sticky) ==
    IF cmp = 1 \/ (cmp = 0 /\ (sticky \/ BNOdd(q))) THEN BNAdd(q, <<1>>)
    ELSE q

\* n without its sh low bits, rounded (sh > 0), or with -sh more.
ShiftRounded(n, sh, sticky) ==
    IF sh <= 0 THEN BNShl(n, -sh)
    ELSE RoundHalfEven(BNShr(n, sh),
                       BNCmp(BNLow(n, sh), BNShl(<<1>>, sh - 1)), sticky)

DRoundAt(neg, n, e, sticky, sh) ==
    DFinish(neg, ShiftRounded(n, sh, sticky), e + sh)

DRound(neg, n, e, sticky) ==
    IF n = <<>> THEN DZero(neg)
    ELSE DRoundAt(neg, n, e, sticky,
                  IF e + BNBitLen(n) - Precision < MinExp THEN MinExp - e
                  ELSE BNBitLen(n) - Precision)

Abs(n) == IF n < 0 THEN -n ELSE n

\* float(n) of an int
DFromInt(n) == DRound(n < 0, BNFromNat(Abs(n)), 0, FALSE)

\* p / q of two ints, q # 0 (true division)
DRoundQuotient(neg, x, e) == DRound(neg, x.q, e, x.r # <<>>)

\* a / b from the quotient of a * 2^s by b
DDivShifted(neg, a, b, s) ==
    DRoundQuotient(neg, BNDivMod(BNShl(a, s), b), -s)

DDivNats(neg, a, b) == DDivShifted(neg, a, b, Precision + 2 + BNBitLen(b))

DDivInts(p, q) ==
    IF p = 0 THEN DZero(q < 0)
    ELSE DDivNats((p < 0) # (q < 0), BNFromNat(Abs(p)), BNFromNat(Abs(q)))

IsZero(a) == a.c = "fin" /\ a.m = <<>>

\* a * b
DMul(a, b) ==
    IF a.c = "nan" \/ b.c = "nan" THEN DNaN
    ELSE IF a.c = "inf" \/ b.c = "inf"
    THEN (IF IsZero(a) \/ IsZero(b) THEN DNaN ELSE DInf(a.neg # b.neg))
    ELSE DRound(a.neg # b.neg, BNMul(a.m, b.m), a.e + b.e, FALSE)

\* (-1)^aneg * x * 2^e + (-1)^bneg * y * 2^e
DAddAligned(aneg, x, bneg, y, e) ==
    IF aneg # bneg /\ x = y THEN DZero(FALSE)
    ELSE DRound(IF aneg = bneg \/ BNCmp(x, y) = 1 THEN aneg ELSE bneg,
                IF aneg = bneg THEN BNAdd(x, y)
                ELSE IF BNCmp(x, y) = 1 THEN BNSub(x, y)
                ELSE BNSub(y, x),
                e, FALSE)

\* a + b
DAdd(a, b) ==
    IF a.c = "nan" \/ b.c = "nan" THEN DNaN
    ELSE IF a.c = "inf"
    THEN (IF b.c = "inf" /\ a.neg # b.neg THEN DNaN ELSE a)
    ELSE IF b.c = "inf" THEN b
    ELSE IF IsZero(a) /\ IsZero(b) THEN DZero(a.neg /\ b.neg)
    ELSE IF IsZero(a) THEN b
    ELSE IF IsZero(b) THEN a
    ELSE DAddAligned(a.neg, BNShl(a.m, a.e - Min2(a.e, b.e)),
                     b.neg, BNShl(b.m, b.e - Min2(a.e, b.e)), Min2(a.e, b.e))

\* a < b on magnitudes of finite floats
MagLess(a, b) ==
    IF IsZero(b) THEN FALSE
    ELSE IF IsZero(a) THEN TRUE
    ELSE a.e < b.e \/ (a.e = b.e /\ BNCmp(a.m, b.m) = -1)

\* a < b
DLess(a, b) ==
    IF a.c = "nan" \/ b.c = "nan" THEN FALSE
    ELSE IF a.c = "inf" THEN a.neg /\ ~(b.c = "inf" /\ b.neg)
    ELSE IF b.c = "inf" THEN ~b.neg
    ELSE IF IsZero(a) /\ IsZero(b) THEN FALSE
    ELSE IF a.neg /\ ~b.neg THEN TRUE
    ELSE IF ~a.neg /\ b.neg THEN FALSE
    ELSE IF a.neg THEN MagLess(b, a)
    ELSE MagLess(a, b)

IntOf(neg, mag) == [ok |-> TRUE, n |-> IF neg THEN -mag ELSE mag, exc |-> ""]

\* int(a): truncation toward zero, or the exception raised.
DTrunc(a) ==
    IF a.c = "nan" THEN [ok |-> FALSE, n |-> 0, exc |-> "ValueError"]
    ELSE IF a.c = "inf" THEN [ok |-> FALSE, n |-> 0, exc |-> "OverflowError"]
    ELSE IntOf(a.neg, BNToNat(IF a.e >= 0 THEN BNShl(a.m, a.e)
                                  ELSE BNShr(a.m, -a.e)))

\* n * 10^k
RECURSIVE BNMulPow10(_, _)
BNMulPow10(n, k) ==
    IF k = 0 THEN n
    ELSE IF k <= 4 THEN BNMulSmall(n, 10 ^ k, 0)
    ELSE LET first == BNMulPow10(n, k \div 2)
         IN  IF first = <<>> THEN <<>> ELSE BNMulPow10(first, k - k \div 2)

CutOff(t) == [q |-> t.q, cut |-> t.r # 0]

\* floor(n / 10^k), and whether anything was cut off
RECURSIVE BNDivPow10(_, _)
BNDivPow10(n, k) ==
    IF k = 0 THEN [q |-> n, cut |-> FALSE]
    ELSE IF k <= 4
    THEN CutOff(BNDivSmall(n, 10 ^ k))
    ELSE LET first  == BNDivPow10(n, k \div 2)
             second == BNDivPow10(first.q, k - k \div 2)
         IN  IF first.cut THEN [q |-> second.q, cut |-> TRUE] ELSE second

DRoundCut(neg, x, e) == DRound(neg, x.q, e, x.cut)

\* m * 10^k for k < 0, from the quotient of m * 2^s by 10^-k
DFromShifted(neg, m, k, s) ==
    DRoundCut(neg, BNDivPow10(BNShl(m, s), -k), -s)

\* The float nearest to (-1)^neg * m * 10^k
DFromDecimal(neg, m, k) ==
    IF m = <<>> THEN DZero(neg)
    ELSE IF k >= 0
    THEN (IF k > 400 THEN DInf(neg)
          ELSE DRound(neg, BNMulPow10(m, k), 0, FALSE))
    ELSE IF 3 * (-k) > BNBitLen(m) + 1400 THEN DZero(neg)
    ELSE DFromShifted(neg, m, k, 4 * (-k) + Precision + 2)

(***************************************************************************)
(* 4. pitch_to_midi                                                        *)
(***************************************************************************)
PITCH_MIN == 48
PITCH_MAX == 72

Letters == {"A", "B", "C", "D", "E", "F", "G"}

\* What str.strip() removes: the characters for which str.isspace() holds.
Whitespace ==
    {"\t", "\n", "U+000B", "\f", "\r", "U+001C", "U+001D", "U+001E",
     "U+001F", " ", "U+0085", "U+00A0", "U+1680", "U+2000", "U+2001",
     "U+2002", "U+2003", "U+2004", "U+2005", "U+2006", "U+2007", "U+2008",
     "U+2009", "U+200A", "U+2028", "U+2029", "U+202F", "U+205F", "U+3000"}

\* The decimal digits of Unicode (category Nd), which \d matches and int()
\* and float() read: DecimalDigits[v + 1] holds the digits of value v.
DecimalDigits ==
    <<{"0", "U+0660", "U+06F0", "U+07C0", "U+0966", "U+09E6", "U+0A66",
       "U+0AE6", "U+0B66", "U+0BE6", "U+0C66", "U+0CE6", "U+0D66",
       "U+0DE6", "U+0E50", "U+0ED0", "U+0F20", "U+1040", "U+1090",
       "U+17E0", "U+1810", "U+1946", "U+19D0", "U+1A80", "U+1A90",
       "U+1B50", "U+1BB0", "U+1C40", "U+1C50", "U+A620", "U+A8D0",
       "U+A900", "U+A9D0", "U+A9F0", "U+AA50", "U+ABF0", "U+FF10",
       "U+104A0", "U+10D30", "U+11066", "U+110F0", "U+11136", "U+111D0",
       "U+112F0", "U+11450", "U+114D0", "U+11650", "U+116C0", "U+11730",
       "U+118E0", "U+11950", "U+11C50", "U+11D50", "U+11DA0", "U+16A60",
       "U+16AC0", "U+16B50", "U+1D7CE", "U+1D7D8", "U+1D7E2", "U+1D7EC",
       "U+1D7F6", "U+1E140", "U+1E2F0", "U+1E950", "U+1FBF0"},
      {"1", "U+0661", "U+06F1", "U+07C1", "U+0967", "U+09E7", "U+0A67",
       "U+0AE7", "U+0B67", "U+0BE7", "U+0C67", "U+0CE7", "U+0D67",
       "U+0DE7", "U+0E51", "U+0ED1", "U+0F21", "U+1041", "U+1091",
       "U+17E1", "U+1811", "U+1947", "U+19D1", "U+1A81", "U+1A91",
       "U+1B51", "U+1BB1", "U+1C41", "U+1C51", "U+A621", "U+A8D1",
       "U+A901", "U+A9D1", "U+A9F1", "U+AA51", "U+ABF1", "U+FF11",
       "U+104A1", "U+10D31", "U+11067", "U+110F1", "U+11137", "U+111D1",
       "U+112F1", "U+11451", "U+114D1", "U+11651", "U+116C1", "U+11731",
       "U+118E1", "U+11951", "U+11C51", "U+11D51", "U+11DA1", "U+16A61",
       "U+16AC1", "U+16B51", "U+1D7CF", "U+1D7D9", "U+1D7E3", "U+1D7ED",
       "U+1D7F7", "U+1E141", "U+1E2F1", "U+1E951", "U+1FBF1"},
      {"2", "U+0662", "U+06F2", "U+07C2", "U+0968", "U+09E8", "U+0A68",
       "U+0AE8", "U+0B68", "U+0BE8", "U+0C68", "U+0CE8", "U+0D68",
       "U+0DE8", "U+0E52", "U+0ED2", "U+0F22", "U+1042", "U+1092",
       "U+17E2", "U+1812", "U+1948", "U+19D2", "U+1A82", "U+1A92",
       "U+1B52", "U+1BB2", "U+1C42", "U+1C52", "U+A622", "U+A8D2",
       "U+A902", "U+A9D2", "U+A9F2", "U+AA52", "U+ABF2", "U+FF12",
       "U+104A2", "U+10D32", "U+11068", "U+110F2", "U+11138", "U+111D2",
       "U+112F2", "U+11452", "U+114D2", "U+11652", "U+116C2", "U+11732",
       "U+118E2", "U+11952", "U+11C52", "U+11D52", "U+11DA2", "U+16A62",
       "U+16AC2", "U+16B52", "U+1D7D0", "U+1D7DA", "U+1D7E4", "U+1D7EE",
       "U+1D7F8", "U+1E142", "U+1E2F2", "U+1E952", "U+1FBF2"},
      {"3", "U+0663", "U+06F3", "U+07C3", "U+0969", "U+09E9", "U+0A69",
       "U+0AE9", "U+0B69", "U+0BE9", "U+0C69", "U+0CE9", "U+0D69",
       "U+0DE9", "U+0E53", "U+0ED3", "U+0F23", "U+1043", "U+1093",
       "U+17E3", "U+1813", "U+1949", "U+19D3", "U+1A83", "U+1A93",
       "U+1B53", "U+1BB3", "U+1C43", "U+1C53", "U+A623", "U+A8D3",
       "U+A903", "U+A9D3", "U+A9F3", "U+AA53", "U+ABF3", "U+FF13",
       "U+104A3", "U+10D33", "U+11069", "U+110F3", "U+11139", "U+111D3",
       "U+112F3", "U+11453", "U+114D3", "U+11653", "U+116C3", "U+11733",
       "U+118E3", "U+11953", "U+11C53", "U+11D53", "U+11DA3", "U+16A63",
       "U+16AC3", "U+16B53", "U+1D7D1", "U+1D7DB", "U+1D7E5", "U+1D7EF",
       "U+1D7F9", "U+1E143", "U+1E2F3", "U+1E953", "U+1FBF3"},
      {"4", "U+0664", "U+06F4", "U+07C4", "U+096A", "U+09EA", "U+0A6A",
       "U+0AEA", "U+0B6A", "U+0BEA", "U+0C6A", "U+0CEA", "U+0D6A",
       "U+0DEA", "U+0E54", "U+0ED4", "U+0F24", "U+1044", "U+1094",
       "U+17E4", "U+1814", "U+194A", "U+19D4", "U+1A84", "U+1A94",
       "U+1B54", "U+1BB4", "U+1C44", "U+1C54", "U+A624", "U+A8D4",
       "U+A904", "U+A9D4", "U+A9F4", "U+AA54", "U+ABF4", "U+FF14",
       "U+104A4", "U+10D34", "U+1106A", "U+110F4", "U+1113A", "U+111D4",
       "U+112F4", "U+11454", "U+114D4", "U+11654", "U+116C4", "U+11734",
       "U+118E4", "U+11954", "U+11C54", "U+11D54", "U+11DA4", "U+16A64",
       "U+16AC4", "U+16B54", "U+1D7D2", "U+1D7DC", "U+1D7E6", "U+1D7F0",
       "U+1D7FA", "U+1E144", "U+1E2F4", "U+1E954", "U+1FBF4"},
      {"5", "U+0665", "U+06F5", "U+07C5", "U+096B", "U+09EB", "U+0A6B",
       "U+0AEB", "U+0B6B", "U+0BEB", "U+0C6B", "U+0CEB", "U+0D6B",
       "U+0DEB", "U+0E55", "U+0ED5", "U+0F25", "U+1045", "U+1095",
       "U+17E5", "U+1815", "U+194B", "U+19D5", "U+1A85", "U+1A95",
       "U+1B55", "U+1BB5", "U+1C45", "U+1C55", "U+A625", "U+A8D5",
       "U+A905", "U+A9D5", "U+A9F5", "U+AA55", "U+ABF5", "U+FF15",
       "U+104A5", "U+10D35", "U+1106B", "U+110F5", "U+1113B", "U+111D5",
       "U+112F5", "U+11455", "U+114D5", "U+11655", "U+116C5", "U+11735",
       "U+118E5", "U+11955", "U+11C55", "U+11D55", "U+11DA5", "U+16A65",
       "U+16AC5", "U+16B55", "U+1D7D3", "U+1D7DD", "U+1D7E7", "U+1D7F1",
       "U+1D7FB", "U+1E145", "U+1E2F5", "U+1E955", "U+1FBF5"},
      {"6", "U+0666", "U+06F6", "U+07C6", "U+096C", "U+09EC", "U+0A6C",
       "U+0AEC", "U+0B6C", "U+0BEC", "U+0C6C", "U+0CEC", "U+0D6C",
       "U+0DEC", "U+0E56", "U+0ED6", "U+0F26", "U+1046", "U+1096",
       "U+17E6", "U+1816", "U+194C", "U+19D6", "U+1A86", "U+1A96",
       "U+1B56", "U+1BB6", "U+1C46", "U+1C56", "U+A626", "U+A8D6",
       "U+A906", "U+A9D6", "U+A9F6", "U+AA56", "U+ABF6", "U+FF16",
       "U+104A6", "U+10D36", "U+1106C", "U+110F6", "U+1113C", "U+111D6",
       "U+112F6", "U+11456", "U+114D6", "U+11656", "U+116C6", "U+11736",
       "U+118E6", "U+11956", "U+11C56", "U+11D56", "U+11DA6", "U+16A66",
       "U+16AC6", "U+16B56", "U+1D7D4", "U+1D7DE", "U+1D7E8", "U+1D7F2",
       "U+1D7FC", "U+1E146", "U+1E2F6", "U+1E956", "U+1FBF6"},
      {"7", "U+0667", "U+06F7", "U+07C7", "U+096D", "U+09ED", "U+0A6D",
       "U+0AED", "U+0B6D", "U+0BED", "U+0C6D", "U+0CED", "U+0D6D",
       "U+0DED", "U+0E57", "U+0ED7", "U+0F27", "U+1047", "U+1097",
       "U+17E7", "U+1817", "U+194D", "U+19D7", "U+1A87", "U+1A97",
       "U+1B57", "U+1BB7", "U+1C47", "U+1C57", "U+A627", "U+A8D7",
       "U+A907", "U+A9D7", "U+A9F7", "U+AA57", "U+ABF7", "U+FF17",
       "U+104A7", "U+10D37", "U+1106D", "U+110F7", "U+1113D", "U+111D7",
       "U+112F7", "U+11457", "U+114D7", "U+11657", "U+116C7", "U+11737",
       "U+118E7", "U+11957", "U+11C57", "U+11D57", "U+11DA7", "U+16A67",
       "U+16AC7", "U+16B57", "U+1D7D5", "U+1D7DF", "U+1D7E9", "U+1D7F3",
       "U+1D7FD", "U+1E147", "U+1E2F7", "U+1E957", "U+1FBF7"},
      {"8", "U+0668", "U+06F8", "U+07C8", "U+096E", "U+09EE", "U+0A6E",
       "U+0AEE", "U+0B6E", "U+0BEE", "U+0C6E", "U+0CEE", "U+0D6E",
       "U+0DEE", "U+0E58", "U+0ED8", "U+0F28", "U+1048", "U+1098",
       "U+17E8", "U+1818", "U+194E", "U+19D8", "U+1A88", "U+1A98",
       "U+1B58", "U+1BB8", "U+1C48", "U+1C58", "U+A628", "U+A8D8",
       "U+A908", "U+A9D8", "U+A9F8", "U+AA58", "U+ABF8", "U+FF18",
       "U+104A8", "U+10D38", "U+1106E", "U+110F8", "U+1113E", "U+111D8",
       "U+112F8", "U+11458", "U+114D8", "U+11658", "U+116C8", "U+11738",
       "U+118E8", "U+11958", "U+11C58", "U+11D58", "U+11DA8", "U+16A68",
       "U+16AC8", "U+16B58", "U+1D7D6", "U+1D7E0", "U+1D7EA", "U+1D7F4",
       "U+1D7FE", "U+1E148", "U+1E2F8", "U+1E958", "U+1FBF8"},
      {"9", "U+0669", "U+06F9", "U+07C9", "U+096F", "U+09EF", "U+0A6F",
       "U+0AEF", "U+0B6F", "U+0BEF", "U+0C6F", "U+0CEF", "U+0D6F",
       "U+0DEF", "U+0E59", "U+0ED9", "U+0F29", "U+1049", "U+1099",
       "U+17E9", "U+1819", "U+194F", "U+19D9", "U+1A89", "U+1A99",
       "U+1B59", "U+1BB9", "U+1C49", "U+1C59", "U+A629", "U+A8D9",
       "U+A909", "U+A9D9", "U+A9F9", "U+AA59", "U+ABF9", "U+FF19",
       "U+104A9", "U+10D39", "U+1106F", "U+110F9", "U+1113F", "U+111D9",
       "U+112F9", "U+11459", "U+114D9", "U+11659", "U+116C9", "U+11739",
       "U+118E9", "U+11959", "U+11C59", "U+11D59", "U+11DA9", "U+16A69",
       "U+16AC9", "U+16B59", "U+1D7D7", "U+1D7E1", "U+1D7EB", "U+1D7F5",
       "U+1D7FF", "U+1E149", "U+1E2F9", "U+1E959", "U+1FBF9"}>>


NOTE_MAP(c) ==
    CASE c = "C" -> 0 [] c = "D" -> 2 [] c = "E" -> 4 [] c = "F" -> 5
      [] c = "G" -> 7 [] c = "A" -> 9 [] c = "B" -> 11

\* _ACCID_MAP.get(acc, 0)
ACCID_MAP(acc) ==
    CASE acc = "#" -> 1 [] acc = "b" -> -1 [] OTHER -> 0

\* The ASCII digit of value d.
DigitChar(d) ==
    CASE d = 0 -> "0" [] d = 1 -> "1" [] d = 2 -> "2" [] d = 3 -> "3"
      [] d = 4 -> "4" [] d = 5 -> "5" [] d = 6 -> "6" [] d = 7 -> "7"
      [] d = 8 -> "8" [] d = 9 -> "9"

\* The ASCII digit of the same value, for a decimal digit; any other
\* character as it is.  values is where DecimalDigits holds c.
AsciiAt(c, values) ==
    IF values = {} THEN c ELSE DigitChar((CHOOSE i \in values : TRUE) - 1)

ToAsciiChar(c) == AsciiAt(c, {i \in 1..10 : c \in DecimalDigits[i]})

ToAscii(s) == [i \in 1..Len(s) |-> ToAsciiChar(s[i])]

AsciiDigits == {"0", "1", "2", "3", "4", "5", "6", "7", "8", "9"}

DigitVal(c) ==
    CASE c = "0" -> 0 [] c = "1" -> 1 [] c = "2" -> 2 [] c = "3" -> 3
      [] c = "4" -> 4 [] c = "5" -> 5 [] c = "6" -> 6 [] c = "7" -> 7
      [] c = "8" -> 8 [] c = "9" -> 9

\* s without its leading and trailing characters of the set.
RECURSIVE LStrip(_, _)
LStrip(s, chars) ==
    IF s # <<>> /\ Head(s) \in chars THEN LStrip(Tail(s), chars) ELSE s

StripChars(s, chars) == Reverse(LStrip(Reverse(LStrip(s, chars)), chars))

\* str.strip(): leading and trailing whitespace removed.
Strip(s) == StripChars(s, Whitespace)

\* int() of a non-empty run of ASCII digits.
RECURSIVE DigitsToInt(_, _)
DigitsToInt(ds, acc) ==
    IF ds = <<>> THEN acc
    ELSE DigitsToInt(Tail(ds), acc * 10 + DigitVal(Head(ds)))

NoMatch == [ok |-> FALSE, note |-> "", acc |-> "", octave |-> 0]

\* re.fullmatch(r"([A-G])([#b]?)(-?\d+)", s): the three groups, or no match.
\* The groups are matched from the left: the digits ds of the third, with
\* every decimal digit written in ASCII,
MatchDigits(note, acc, neg, ds) ==
    IF ds = <<>> \/ \E i \in 1..Len(ds) : ds[i] \notin AsciiDigits
    THEN NoMatch
    ELSE [ok |-> TRUE, note |-> note, acc |-> acc,
          octave |-> (IF neg THEN -1 ELSE 1) * DigitsToInt(ds, 0)]

\* the third group in the rest r of the text,
MatchOctave(note, acc, r) ==
    MatchDigits(note, acc, r # <<>> /\ Head(r) = "-",
                ToAscii(IF r # <<>> /\ Head(r) = "-" THEN Tail(r) ELSE r))

\* the second group at the head of r, if it is there,
Accidental(r) == IF r # <<>> /\ Head(r) \in {"#", "b"} THEN Head(r) ELSE ""

\* and the first.
PitchMatch(s) ==
    IF s = <<>> \/ Head(s) \notin Letters THEN NoMatch
    ELSE MatchOctave(Head(s), Accidental(Tail(s)),
                     IF Accidental(Tail(s)) = "" THEN Tail(s)
                     ELSE Tail(Tail(s)))

\* Mutant: the upward fold written as an `if`, one octave at most.
FoldUpOnce(m) == IF m < PITCH_MIN THEN m + 12 ELSE m

\* while midi < PITCH_MIN: midi += 12
RECURSIVE FoldUp(_)
FoldUp(m) == IF m < PITCH_MIN THEN FoldUp(m + 12) ELSE m

\* Mutant: the downward fold stops at the first value below 84, so it can
\* leave a value an octave above the range.
RECURSIVE FoldDownLate(_)
FoldDownLate(m) == IF m > PITCH_MAX + 12 THEN FoldDownLate(m - 12) ELSE m

\* while midi > PITCH_MAX: midi -= 12
RECURSIVE FoldDown(_)
FoldDown(m) == IF m > PITCH_MAX THEN FoldDown(m - 12) ELSE m

BaseMidi(note, acc, octave) ==
    (octave + 1) * 12 + NOTE_MAP(note) + ACCID_MAP(acc)

\* Outcome: [ok |-> TRUE, midi |-> n], or ok = FALSE for the ValueError.
MidiOfMatch(m) ==
    IF ~m.ok THEN [ok |-> FALSE, midi |-> 0]
    ELSE [ok |-> TRUE,
          midi |-> FoldDown(FoldUp(BaseMidi(m.note, m.acc, m.octave)))]

pitch_to_midi(s) == MidiOfMatch(PitchMatch(Strip(s)))

(***************************************************************************)
(* Token generator for the checks: the decimal text of an integer.         *)
(***************************************************************************)
RECURSIVE NatChars(_)
NatChars(n) ==
    IF n < 10 THEN <<DigitChar(n)>>
    ELSE Append(NatChars(n \div 10), DigitChar(n % 10))

IntChars(n) == IF n < 0 THEN <<"-">> \o NatChars(-n) ELSE NatChars(n)

AccChars(acc) == IF acc = "" THEN <<>> ELSE <<acc>>

PitchToken(note, acc, octave) == <<note>> \o AccChars(acc) \o IntChars(octave)

(***************************************************************************)
(* _encode_varint, _meta_tempo and struct.pack                             *)
(***************************************************************************)
\* value & 0x7F and value >> 7 on Python's unbounded two's-complement ints:
\* the residue in 0..127 and the floor quotient, for negative values too.
And7F(v) == v % 128
Shr7(v) == v \div 128

\* while value: buf.append((value & 0x7F) | 0x80); value >>= 7
\* A negative value shifts down to -1 and stays there: the loop appends to
\* buf until no memory is left, and list.append raises MemoryError
\* (ok = FALSE).
RECURSIVE VarintLoop(_, _)
VarintLoop(v, buf) ==
    IF v = 0 THEN [ok |-> TRUE, buf |-> buf]
    ELSE IF Shr7(v) = v THEN [ok |-> FALSE, buf |-> <<>>]
    ELSE VarintLoop(Shr7(v), Append(buf, And7F(v) + 128))

\* Mutant: the groups are returned least significant first (no reversed()).
encode_varint_unreversed(v) ==
    LET r == VarintLoop(Shr7(v), <<And7F(v)>>)
    IN  IF r.ok THEN [ok |-> TRUE, bytes |-> r.buf]
        ELSE [ok |-> FALSE, bytes |-> <<>>]

\* Outcome: [ok |-> TRUE, bytes |-> b], or ok = FALSE for the MemoryError.
encode_varint(v) ==
    LET r == VarintLoop(Shr7(v), <<And7F(v)>>)
    IN  IF r.ok THEN [ok |-> TRUE, bytes |-> Reverse(r.buf)]
        ELSE [ok |-> FALSE, bytes |-> <<>>]

\* struct.pack(">I", n), struct.pack(">H", n) for n within the field.
PackBE32(n) ==
    <<(n \div 16777216) % 256, (n \div 65536) % 256, (n \div 256) % 256, n % 256>>

PackBE16(n) == <<(n \div 256) % 256, n % 256>>

\* struct.pack("<I", n), struct.pack("<H", n)
PackLE32(n) == Reverse(PackBE32(n))

PackLE16(n) == Reverse(PackBE16(n))

\* us = int(60_000_000 / bpm), the division being that of floats
MicrosPerBeat(bpm) == DTrunc(DDivInts(60000000, bpm)).n

\* Mutant: the payload packed as ">H", which drops the high byte.
meta_tempo_short(bpm) ==
    <<255, 81, 3>> \o PackBE16(MicrosPerBeat(bpm))

\* b"\xFF\x51\x03" + struct.pack(">I", us)[1:]
meta_tempo(bpm) ==
    <<255, 81, 3>> \o Tail(PackBE32(MicrosPerBeat(bpm)))

(***************************************************************************)
(* JSON values of the score, as json.loads returns them.  A field of a     *)
(* note (or of the score) is                                               *)
(*   Absent        the key is missing                                      *)
(*   JNull         None                                                    *)
(*   JInt(n)       the int n                                               *)
(*   JFrac(k)      the float k / BeatDen                                   *)
(*   JInf(neg)     the float Infinity or -Infinity                         *)
(*   JNaN          the float NaN                                           *)
(*   JStr(s)       the str s                                               *)
(***************************************************************************)
BeatDen == 512

Absent == [t |-> "absent", n |-> 0, s |-> <<>>]
JNull == [t |-> "null", n |-> 0, s |-> <<>>]
JInt(n) == [t |-> "int", n |-> n, s |-> <<>>]
JFrac(k) == [t |-> "frac", n |-> k, s |-> <<>>]
JInf(neg) == [t |-> "inf", n |-> IF neg THEN -1 ELSE 1, s |-> <<>>]
JNaN == [t |-> "nan", n |-> 0, s |-> <<>>]
JStr(s) == [t |-> "str", n |-> 0, s |-> s]

\* The float a JSON number is.
FloatOf(x) ==
    CASE x.t = "frac" -> DDivInts(x.n, BeatDen)
      [] x.t = "inf"  -> DInf(x.n < 0)
      [] x.t = "nan"  -> DNaN

(***************************************************************************)
(* int() and float() of a str.  Both read any decimal digit of Unicode,    *)
(* skip whitespace at the two ends (not the separators U+001C to U+001F,   *)
(* which str.strip() removes), take one sign, and allow single underscores *)
(* between digits.                                                         *)
(***************************************************************************)
NumberSpace == Whitespace \ {"U+001C", "U+001D", "U+001E", "U+001F"}

SignChars == {"+", "-"}

IsDigit(c) == c \in AsciiDigits

\* A run of digits with single underscores between digits only.
IsDigitRun(ds) ==
    /\ ds # <<>>
    /\ \A i \in 1..Len(ds) : ds[i] \in AsciiDigits \/ ds[i] = "_"
    /\ ds[1] # "_"
    /\ ds[Len(ds)] # "_"
    /\ \A i \in 1..(Len(ds) - 1) : ~(ds[i] = "_" /\ ds[i + 1] = "_")

\* The number a run of digits writes, as limbs.
RECURSIVE DigitsToBN(_, _)
DigitsAfter(ds, next) ==
    IF Len(next) < 0 THEN next ELSE DigitsToBN(ds, next)

DigitsToBN(ds, acc) ==
    IF ds = <<>> THEN acc
    ELSE DigitsAfter(Tail(ds), BNMulSmall(acc, 10, DigitVal(Head(ds))))

\* The index of the first character of s that is in chars; 0 if none is.
FirstOf(s, chars) ==
    IF \A i \in 1..Len(s) : s[i] \notin chars THEN 0
    ELSE CHOOSE i \in 1..Len(s) :
           s[i] \in chars /\ \A j \in 1..(i - 1) : s[j] \notin chars

\* The text before and after the character at index i (all of it, and
\* nothing, when i = 0).
Before(s, i) == IF i = 0 THEN s ELSE SubSeq(s, 1, i - 1)
After(s, i) == IF i = 0 THEN <<>> ELSE SubSeq(s, i + 1, Len(s))

IsMinus(s) == s # <<>> /\ Head(s) = "-"
Unsigned(s) == IF s # <<>> /\ Head(s) \in SignChars THEN Tail(s) ELSE s

ValueErrorInt == [ok |-> FALSE, n |-> 0, exc |-> "ValueError"]

ParseDigits(neg, ds) ==
    IF ~IsDigitRun(ds) THEN ValueErrorInt
    ELSE IntOf(neg, DigitsToInt(SelectSeq(ds, IsDigit), 0))

ParseSigned(body) == ParseDigits(IsMinus(body), Unsigned(body))

\* int(s), base 10
ParseInt(s) == ParseSigned(ToAscii(StripChars(s, NumberSpace)))

\* Letters of "infinity" and "nan" in lower case; any other character as is.
Lower(c) ==
    CASE c = "I" -> "i" [] c = "N" -> "n" [] c = "F" -> "f" [] c = "T" -> "t"
      [] c = "Y" -> "y" [] c = "A" -> "a" [] OTHER -> c

\* The exponent an exponent part writes.  Ten to a power beyond 400 is not
\* a finite float and ten to a power below -400 times any text of fewer
\* than 20000 digits is zero, so a longer exponent counts as 99999.
MaxExpDigits == 5

BoundedExponent(sig) ==
    IF sig = <<>> THEN 0
    ELSE IF Len(sig) > MaxExpDigits THEN 10 ^ MaxExpDigits - 1
    ELSE DigitsToInt(sig, 0)

ExponentOf(ds) == BoundedExponent(LStrip(SelectSeq(ds, IsDigit), {"0"}))

FloatReturned(d) == [ok |-> TRUE, d |-> d, exc |-> ""]

FloatRaised(e) == [ok |-> FALSE, d |-> DNaN, exc |-> e]

ValueErrorFloat == FloatRaised("ValueError")

\* The float of the digits id before and fd after the point, times 10^k.
FloatOfDigits(neg, id, fd, k) ==
    FloatReturned(DFromDecimal(neg, DigitsToBN(id \o fd, <<>>), k - Len(fd)))

\* ip and fp are the text before and after the point, eds the digits of the
\* exponent, if there is one.
ParseRuns(neg, ip, fp, hasexp, eneg, eds) ==
    IF \/ (ip = <<>> /\ fp = <<>>)
       \/ (ip # <<>> /\ ~IsDigitRun(ip))
       \/ (fp # <<>> /\ ~IsDigitRun(fp))
       \/ (hasexp /\ ~IsDigitRun(eds))
    THEN ValueErrorFloat
    ELSE FloatOfDigits(neg, SelectSeq(ip, IsDigit), SelectSeq(fp, IsDigit),
                       IF hasexp THEN (IF eneg THEN -1 ELSE 1) * ExponentOf(eds)
                       ELSE 0)

ParsePoint(neg, mant, pt, hasexp, etxt) ==
    ParseRuns(neg, Before(mant, pt), After(mant, pt), hasexp,
              IsMinus(etxt), Unsigned(etxt))

ParseExponent(neg, body, ex) ==
    ParsePoint(neg, Before(body, ex), FirstOf(Before(body, ex), {"."}),
               ex # 0, After(body, ex))

\* float(s) of the digits, point and exponent after the sign
ParseDecimal(neg, body) == ParseExponent(neg, body, FirstOf(body, {"e", "E"}))

ParseNamed(neg, body, low) ==
    IF low \in {<<"i", "n", "f">>, <<"i", "n", "f", "i", "n", "i", "t", "y">>}
    THEN FloatReturned(DInf(neg))
    ELSE IF low = <<"n", "a", "n">> THEN FloatReturned(DNaN)
    ELSE ParseDecimal(neg, body)

ParseUnsigned(neg, body) ==
    ParseNamed(neg, body, [i \in 1..Len(body) |-> Lower(body[i])])

ParseSignedFloat(body) == ParseUnsigned(IsMinus(body), Unsigned(body))

\* float(s)
ParseFloat(s) == ParseSignedFloat(ToAscii(StripChars(s, NumberSpace)))

\* float(x): [ok, d] with the float d, or the exception raised.
PyFloat(x) ==
    CASE x.t = "int"  -> FloatReturned(DFromInt(x.n))
      [] x.t \in {"frac", "inf", "nan"} -> FloatReturned(FloatOf(x))
      [] x.t = "str"  -> ParseFloat(x.s)
      [] x.t = "null" -> FloatRaised("TypeError")

\* int(x): [ok, n], truncating a float toward zero, or the exception raised.
PyInt(x) ==
    CASE x.t = "int"  -> [ok |-> TRUE, n |-> x.n, exc |-> ""]
      [] x.t \in {"frac", "inf", "nan"} -> DTrunc(FloatOf(x))
      [] x.t = "str"  -> ParseInt(x.s)
      [] x.t = "null" -> [ok |-> FALSE, n |-> 0, exc |-> "TypeError"]

\* str(x) of a value that is not a finite float.
PyStr(x) ==
    CASE x.t = "str"  -> x.s
      [] x.t = "int"  -> IntChars(x.n)
      [] x.t = "null" -> <<"N", "o", "n", "e">>
      [] x.t = "nan"  -> <<"n", "a", "n">>
      [] x.t = "inf"  -> IF x.n < 0 THEN <<"-", "i", "n", "f">>
                         ELSE <<"i", "n", "f">>

\* pitch_to_midi(str(x)).  str() of a finite float begins with a digit or
\* with "-", neither of them a note letter, and so is no pitch.
PitchOf(x) ==
    IF x.t = "frac" THEN [ok |-> FALSE, midi |-> 0]
    ELSE pitch_to_midi(PyStr(x))

\* d[key]: KeyError when the key is missing.  d.get(key, default).
Subscript(x) ==
    IF x.t = "absent" THEN [ok |-> FALSE, exc |-> "KeyError"]
    ELSE [ok |-> TRUE, exc |-> ""]

Get(x, default) == IF x.t = "absent" THEN default ELSE x
(***************************************************************************)
(* build_midi                                                              *)
(***************************************************************************)
tpb == 480

Returned(b) == [status |-> "ok", exc |-> "", bytes |-> b]
Raised(e) == [status |-> "raised", exc |-> e, bytes |-> <<>>]

\* bpm = max(40, min(200, int(music_json.get("tempo_bpm", 90))))
ClampTempo(n) == Max2(40, Min2(200, n))

\* Mutant: only the lower clamp, max(0, int(...)).
ClampVelocityLow(n) == Max2(0, n)

\* vel = max(0, min(127, int(note.get("velocity", 80))))
ClampVelocity(n) == Max2(0, Min2(127, n))

\* key=lambda n: float(n["start_beat"]) of one note
NoteKey(note) ==
    IF ~Subscript(note.start_beat).ok
    THEN FloatRaised("KeyError")
    ELSE PyFloat(note.start_beat)

\* The key of every note, or the exception raised for it.
Keys(melody) == [i \in 1..Len(melody) |-> NoteKey(melody[i])]

FirstRaised(keys) ==
    IF \A i \in 1..Len(keys) : keys[i].ok THEN ""
    ELSE keys[CHOOSE i \in 1..Len(keys) :
                ~keys[i].ok /\ \A j \in 1..(i - 1) : keys[j].ok].exc

\* The first exception raised while sorted() computes the keys, in list
\* order; "" when every key is computed.
KeysExc(melody) == FirstRaised(Keys(melody))

\* sorted(): each note with its key, computed once.
Keyed(melody) ==
    [i \in 1..Len(melody) |-> [key |-> NoteKey(melody[i]).d, note |-> melody[i]]]

\* list.sort on fewer than 64 elements: the run the list starts with is
\* found (count_run), reversed when strictly descending, and every later
\* element is put in place by binary insertion (binarysort).  a < b on the
\* keys is the only comparison made, and it is false when either is NaN.
KeyLess(a, b) == DLess(a.key, b.key)

\* Whether each element but the first is less than the one before it.
Descents(s) == [i \in 1..(Len(s) - 1) |-> KeyLess(s[i + 1], s[i])]

\* The run goes on while the elements descend, or do not, as the first two.
RunOf(n, desc) ==
    IF n < 2 THEN [n |-> n, descending |-> FALSE]
    ELSE [n |-> IF \A i \in 2..(n - 1) : desc[i] = desc[1] THEN n
                ELSE CHOOSE i \in 2..(n - 1) :
                       desc[i] # desc[1]
                       /\ \A j \in 2..(i - 1) : desc[j] = desc[1],
          descending |-> desc[1]]

\* Length of the run at the start of s and whether it descends.
CountRun(s) == RunOf(Len(s), Descents(s))

\* Where the pivot goes among s[l .. r - 1], which is sorted: after every
\* element it is not less than.
RECURSIVE BisectRight(_, _, _, _)
BisectRight(s, pivot, l, r) ==
    IF l >= r THEN l
    ELSE IF KeyLess(pivot, s[l + (r - l) \div 2])
    THEN BisectRight(s, pivot, l, l + (r - l) \div 2)
    ELSE BisectRight(s, pivot, l + (r - l) \div 2 + 1, r)

\* s with its element at index start moved to index at <= start.
MoveTo(s, start, at) ==
    SubSeq(s, 1, at - 1) \o <<s[start]>>
    \o SubSeq(s, at, start - 1) \o SubSeq(s, start + 1, Len(s))

\* binarysort: s[1 .. start - 1] is sorted, the rest is inserted in turn.
RECURSIVE BinarySort(_, _)
BinarySort(s, start) ==
    IF start > Len(s) THEN s
    ELSE BinarySort(MoveTo(s, start, BisectRight(s, s[start], 1, start)),
                    start + 1)

SortFromRun(s, run) ==
    BinarySort((IF run.descending THEN Reverse(SubSeq(s, 1, run.n))
                ELSE SubSeq(s, 1, run.n)) \o SubSeq(s, run.n + 1, Len(s)),
               run.n + 1)

SortKeyed(s) == SortFromRun(s, CountRun(s))

NotesOf(sorted) == [i \in 1..Len(sorted) |-> sorted[i].note]

\* notes = sorted(music_json["melody"], key=...), every key being computed
SortNotes(melody) == NotesOf(SortKeyed(Keyed(melody)))

\* Mutant: round() in place of int(): the nearest integer, ties to even.
BeatsToTicksRounded(beats) ==
    LET a == DMul(beats, DFromInt(tpb)) IN
    IF a.c # "fin" THEN DTrunc(a)
    ELSE IF a.e >= 0 THEN DTrunc(a)
    ELSE
      LET q   == BNToNat(BNShr(a.m, -a.e))
          cmp == BNCmp(BNLow(a.m, -a.e), BNShl(<<1>>, -a.e - 1))
          mag == IF cmp = 1 \/ (cmp = 0 /\ q % 2 = 1) THEN q + 1 ELSE q
      IN  [ok |-> TRUE, n |-> IF a.neg THEN -mag ELSE mag, exc |-> ""]

\* int(beats * tpb): [ok, n], or the exception int() raises on inf and nan.
BeatsToTicks(beats) == DTrunc(DMul(beats, DFromInt(tpb)))

NoEvents(how, exc) == [r |-> how, exc |-> exc, ev |-> <<>>]

\* The statements of the loop body after the pitch is resolved, from the
\* last to the first: the two events appended,
OnOff(start, dur, midi_note, vel) ==
    [r |-> "ok", exc |-> "",
     ev |-> << <<start, 1, 144, midi_note, vel>>,
               <<start + dur, 0, 128, midi_note, 0>> >>]

\* dur = max(1, int(float(note["duration_beats"]) * tpb)),
AfterTicks(midi_note, vel, start, ticks) ==
    IF ~ticks.ok THEN NoEvents("raise", ticks.exc)
    ELSE OnOff(start, Max2(1, ticks.n), midi_note, vel)

AfterDuration(midi_note, vel, start, d) ==
    IF ~d.ok THEN NoEvents("raise", d.exc)
    ELSE AfterTicks(midi_note, vel, start, BeatsToTicks(d.d))

\* start = int(float(note["start_beat"]) * tpb),
AfterStart(note, midi_note, vel, start) ==
    IF ~start.ok THEN NoEvents("raise", start.exc)
    ELSE IF ~Subscript(note.duration_beats).ok
    THEN NoEvents("raise", "KeyError")
    ELSE AfterDuration(midi_note, vel, start.n, PyFloat(note.duration_beats))

\* vel = max(0, min(127, int(note.get("velocity", 80)))).
AfterVelocity(note, midi_note, v) ==
    IF ~v.ok THEN NoEvents("raise", v.exc)
    ELSE AfterStart(note, midi_note, ClampVelocity(v.n),
                    BeatsToTicks(PyFloat(note.start_beat).d))

NoteOnOff(note, midi_note) ==
    AfterVelocity(note, midi_note, PyInt(Get(note.velocity, JInt(80))))

\* Mutant: the ValueError of pitch_to_midi is not caught.
AfterPitchUncaught(note, p) ==
    IF ~p.ok THEN NoEvents("raise", "ValueError")
    ELSE NoteOnOff(note, p.midi)

\* try: midi_note = pitch_to_midi(...)  except ValueError: continue
AfterPitch(note, p) ==
    IF ~p.ok THEN NoEvents("skip", "") ELSE NoteOnOff(note, p.midi)

\* One pass of the loop body over a note: "skip" (continue), "raise", or the
\* two events appended.
NoteEvents(note) ==
    IF ~Subscript(note.pitch).ok THEN NoEvents("raise", "KeyError")
    ELSE AfterPitch(note, PitchOf(note.pitch))

\* for note in notes: ...  The events appended, or the exception raised.
RECURSIVE CollectEvents(_, _)
AfterNote(notes, events, e) ==
    IF e.r = "raise" THEN [ok |-> FALSE, exc |-> e.exc, events |-> <<>>]
    ELSE CollectEvents(notes, events \o e.ev)

CollectEvents(notes, events) ==
    IF notes = <<>> THEN [ok |-> TRUE, exc |-> "", events |-> events]
    ELSE AfterNote(Tail(notes), events, NoteEvents(Head(notes)))

\* Mutant: the priority inverted, note-on first at equal ticks.
EventLeqOnFirst(a, b) == a[1] < b[1] \/ (a[1] = b[1] /\ a[2] >= b[2])

\* events.sort(key=lambda e: (e[0], e[1])), stable.
EventLeq(a, b) == a[1] < b[1] \/ (a[1] = b[1] /\ a[2] <= b[2])

RECURSIVE InsertEvent(_, _)
InsertEvent(s, x) ==
    IF s = <<>> THEN <<x>>
    ELSE IF EventLeq(s[Len(s)], x) THEN Append(s, x)
    ELSE Append(InsertEvent(SubSeq(s, 1, Len(s) - 1), x), s[Len(s)])

RECURSIVE SortEvents(_, _)
SortEvents(done, rest) ==
    IF rest = <<>> THEN done
    ELSE SortEvents(InsertEvent(done, Head(rest)), Tail(rest))

\* Mutant: current_tick is never advanced, so every delta is the event's
\* absolute tick.
RECURSIVE WriteEventsAbsolute(_, _, _)
WriteEventsAbsolute(events, current_tick, track) ==
    IF events = <<>> THEN [ok |-> TRUE, track |-> track]
    ELSE
      LET e     == Head(events)
          delta == e[1] - current_tick
          vq    == encode_varint(delta)
      IN  IF ~vq.ok THEN [ok |-> FALSE, track |-> <<>>]
          ELSE WriteEventsAbsolute(Tail(events), current_tick,
                                   track \o vq.bytes \o <<e[3], e[4], e[5]>>)

\* for tick, _, status, p1, p2 in events: delta = tick - current_tick; ...
RECURSIVE WriteEvents(_, _, _)
WriteEvents(events, current_tick, track) ==
    IF events = <<>> THEN [ok |-> TRUE, track |-> track]
    ELSE
      LET e     == Head(events)
          delta == e[1] - current_tick
          vq    == encode_varint(delta)
      IN  IF ~vq.ok THEN [ok |-> FALSE, track |-> <<>>]
          ELSE WriteEvents(Tail(events), e[1],
                           track \o vq.bytes \o <<e[3], e[4], e[5]>>)

\* b"MThd", b"MTrk"
MThd == <<77, 84, 104, 100>>
MTrk == <<77, 84, 114, 107>>
EndOfTrack == <<0, 255, 47, 0>>

\* Mutant: the length taken before the end-of-track event was appended.
TrackLengthEarly(track_bytes) == Len(track_bytes) - 4

\* len(track_bytes)
TrackLength(track_bytes) == Len(track_bytes)

\* The function from its last statement to its first: the file,
MidiFile(track_bytes) ==
    MThd \o PackBE32(6) \o PackBE16(0) \o PackBE16(1) \o PackBE16(tpb)
    \o MTrk \o PackBE32(TrackLength(track_bytes)) \o track_bytes

\* the track written,
AfterWrite(w) ==
    IF ~w.ok THEN Raised("MemoryError")
    ELSE Returned(MidiFile(w.track \o EndOfTrack))

\* the events collected and sorted,
AfterCollect(bpm, c) ==
    IF ~c.ok THEN Raised(c.exc)
    ELSE AfterWrite(WriteEvents(SortEvents(<<>>, c.events), 0,
                                encode_varint(0).bytes \o meta_tempo(bpm)
                                \o encode_varint(0).bytes \o <<192, 0>>))

\* the notes sorted,
AfterKeys(bpm, melody, exc) ==
    IF exc # "" THEN Raised(exc)
    ELSE AfterCollect(bpm, CollectEvents(SortNotes(melody), <<>>))

\* the tempo read.
AfterTempo(score, t) ==
    IF ~t.ok THEN Raised(t.exc)
    ELSE AfterKeys(ClampTempo(t.n), score.melody, KeysExc(score.melody))

build_midi(score) == AfterTempo(score, PyInt(Get(score.tempo_bpm, JInt(90))))
(***************************************************************************)
(* State outside the operation a specification exercises.                  *)
(***************************************************************************)
NoPitch == [ok |-> FALSE, midi |-> 0]
NoVarint == [ok |-> FALSE, bytes |-> <<>>]
NoScore == [tempo_bpm |-> Absent, melody |-> <<>>]
Pending == [status |-> "pending", exc |-> "", bytes |-> <<>>]
WavPending == [status |-> "pending", exc |-> "", header |-> <<>>,
               total_samples |-> 0, pcm_len |-> 0, adds |-> <<>>]
NoResponse == [kind |-> "none", fields |-> {}, melody_is_list |-> FALSE,
               melody |-> <<>>, tempo |-> Absent, assumptions |-> Absent]
NoEnv == [FOUNDRY_API_KEY |-> <<>>, FOUNDRY_ENDPOINT |-> <<>>,
          MODEL_DEPLOYMENT_NAME |-> <<>>, SPEECH_KEY |-> <<>>,
          AZURE_SPEECH_REGION |-> <<>>]
NoSpeech == [audio |-> [size |-> 0, channels |-> 0, sample_rate |-> 0,
                        bits |-> 0],
             answer |-> "none", text |-> Absent]
NoUi == [click |-> "none", user_text |-> <<>>, transcribed_text |-> <<>>,
         duration |-> DZero(FALSE), success |-> FALSE, errors |-> <<>>,
         warning |-> "", calls |-> <<>>, posts |-> <<>>]

(***************************************************************************)
(* SpecPitch: pitch_to_midi applied to one token.                          *)
(***************************************************************************)
MaxOctave == 11
OctavesBelowZero == 3

Octaves == (-OctavesBelowZero)..MaxOctave
Accidentals == {"", "#", "b"}

\* Every token of the grammar [A-G][#b]?-?\d+ within the octave bounds.
GrammarTokens ==
    {PitchToken(l, a, o) : l \in Letters, a \in Accidentals, o \in Octaves}

\* Tokens outside the grammar, tokens with whitespace around them, and
\* tokens whose octave is written in other digits than ASCII's (Arabic-Indic
\* 4, fullwidth 4, Arabic-Indic 12).
OtherTokens ==
    { <<"Z", "9">>, <<"H", "4">>, <<"c", "4">>, <<"C">>, <<>>, <<"4">>,
      <<"C", "#", "#", "4">>, <<"C", "4", "b">>, <<"C", "-">>,
      <<" ", "C", "4", " ">>, <<"\t", "C", "4", "\n">>,
      <<"U+00A0", "C", "4">>, <<"C", " ", "4">>,
      <<"C", "U+0664">>, <<"C", "U+FF14">>, <<"C", "-", "U+0661", "U+0662">>,
      <<"C", "U+00B2">>, <<"N", "o", "n", "e">> }

InitPitch ==
    /\ pitch_str \in GrammarTokens \cup OtherTokens
    /\ midi = NoPitch
    /\ value = 0
    /\ varint = NoVarint
    /\ music_json = NoScore
    /\ midi_bytes = Pending
    /\ wav_bytes = WavPending
    /\ pc = "call"
    /\ response = NoResponse
    /\ env = NoEnv
    /\ speech = NoSpeech
    /\ ui = NoUi

ResolvePitch ==
    /\ pc = "call"
    /\ midi' = pitch_to_midi(pitch_str)
    /\ pc' = "done"
    /\ UNCHANGED <<pitch_str, value, varint, music_json, midi_bytes, wav_bytes,
                   response, env, speech, ui>>

NextPitch == ResolvePitch

SpecPitch == InitPitch /\ [][NextPitch]_vars

(***************************************************************************)
(* SpecVarint: _encode_varint applied to one integer.                      *)
(***************************************************************************)
MaxValue == 20000
MaxNegative == 3

\* Values around the steps to four and five groups, and the largest delta
\* a 32-bit tick count can give.
LargeValues == {2097151, 2097152, 268435455, 268435456, 2147483647}

InitVarint ==
    /\ value \in ((-MaxNegative)..MaxValue) \cup LargeValues
    /\ varint = NoVarint
    /\ pitch_str = <<>>
    /\ midi = NoPitch
    /\ music_json = NoScore
    /\ midi_bytes = Pending
    /\ wav_bytes = WavPending
    /\ pc = "call"
    /\ response = NoResponse
    /\ env = NoEnv
    /\ speech = NoSpeech
    /\ ui = NoUi

EncodeVarint ==
    /\ pc = "call"
    /\ varint' = encode_varint(value)
    /\ pc' = "done"
    /\ UNCHANGED <<pitch_str, midi, value, music_json, midi_bytes, wav_bytes,
                   response, env, speech, ui>>

NextVarint == EncodeVarint

SpecVarint == InitVarint /\ [][NextVarint]_vars

(***************************************************************************)
(* BuildMidi: build_midi applied to the score.                             *)
(***************************************************************************)
BuildMidi ==
    /\ pc = "render"
    /\ midi_bytes.status = "pending"
    /\ midi_bytes' = build_midi(music_json)
    /\ UNCHANGED <<pitch_str, midi, value, varint, music_json, wav_bytes,
                   pc, response, env, speech, ui>>

(***************************************************************************)
(* synthesize_wav                                                          *)
(*                                                                         *)
(* The sample values (sines, envelope, normalisation) are not modelled:    *)
(* the buffer is its length and, per note that reaches the inner loop, the *)
(* half-open range [lo, hi) of indices into which `buf[idx] += ...` adds.  *)
(* Times and sample counts are computed in floats, as the code does.       *)
(***************************************************************************)
sample_rate == 44100

\* spb = 60.0 / bpm
SecondsPerBeat(bpm) == DDivInts(60, bpm)

\* int(float(beats) * spb * sample_rate), as s0 and ns are computed
SamplesOf(beats, spb) == DTrunc(DMul(DMul(beats, spb), DFromInt(sample_rate)))

\* The literal 0.3
TailSeconds == DFromDecimal(FALSE, <<3>>, -1)

\* int((max_end + 0.3) * sample_rate)
TotalSamples(max_end) ==
    DTrunc(DMul(DAdd(max_end, TailSeconds), DFromInt(sample_rate)))

\* The samples of a buffer that holds the tail only (max_end = 0.0).
TailSamples == TotalSamples(DZero(FALSE)).n

WavReturned(h, total, adds) ==
    [status |-> "ok", exc |-> "", header |-> h, total_samples |-> total,
     pcm_len |-> 2 * total, adds |-> adds]
WavRaised(e) ==
    [status |-> "raised", exc |-> e, header |-> <<>>, total_samples |-> 0,
     pcm_len |-> 0, adds |-> <<>>]

\* for n in notes: end = (float(n["start_beat"]) + float(n["duration_beats"])) * spb
\*                 if end > max_end: max_end = end
\* The largest end in seconds (max_end starts at 0.0), or the exception
\* raised.  One pass of the loop from its last statement to its first:
RECURSIVE MaxEnd(_, _, _)
LaterEnd(notes, spb, max_end, end) ==
    MaxEnd(notes, spb, IF DLess(max_end, end) THEN end ELSE max_end)

EndAfterDuration(notes, spb, max_end, start, dur) ==
    IF ~dur.ok THEN FloatRaised(dur.exc)
    ELSE LaterEnd(Tail(notes), spb, max_end, DMul(DAdd(start, dur.d), spb))

EndAfterStart(notes, spb, max_end, start) ==
    IF ~start.ok THEN FloatRaised(start.exc)
    ELSE IF ~Subscript(Head(notes).duration_beats).ok
    THEN FloatRaised("KeyError")
    ELSE EndAfterDuration(notes, spb, max_end, start.d,
                          PyFloat(Head(notes).duration_beats))

MaxEnd(notes, spb, max_end) ==
    IF notes = <<>> THEN FloatReturned(max_end)
    ELSE EndAfterStart(notes, spb, max_end, NoteKey(Head(notes)))

NoAdds(exc) == [ok |-> FALSE, exc |-> exc, adds |-> <<>>]

\* The second loop: for each note, in list order, the range of buffer
\* indices it adds into.  i is the note's position in the melody.  One pass
\* from its last statement to its first:
RECURSIVE Accumulate(_, _, _, _, _)
AddRange(notes, i, spb, total, adds, s0, ns) ==
    Accumulate(notes, i + 1, spb, total,
               IF ns > 0 /\ Max2(0, s0) < Min2(total, s0 + ns)
               THEN Append(adds, [note |-> i, lo |-> Max2(0, s0),
                                  hi |-> Min2(total, s0 + ns)])
               ELSE adds)

\* s0 = int(t0 * sample_rate); ns = int(dur * sample_rate)
\* if s0 + ns > total_samples: ns = total_samples - s0
AddAfterSamples(notes, i, spb, total, adds, s0, ns) ==
    IF ~s0.ok THEN NoAdds(s0.exc)
    ELSE IF ~ns.ok THEN NoAdds(ns.exc)
    ELSE AddRange(notes, i, spb, total, adds, s0.n,
                  IF s0.n + ns.n > total THEN total - s0.n ELSE ns.n)

AddAfterVelocity(notes, i, spb, total, adds, v) ==
    IF ~v.ok THEN NoAdds(v.exc)
    ELSE AddAfterSamples(notes, i, spb, total, adds,
                         SamplesOf(NoteKey(notes[i]).d, spb),
                         SamplesOf(PyFloat(notes[i].duration_beats).d, spb))

AddAfterPitch(notes, i, spb, total, adds, p) ==
    IF ~p.ok THEN Accumulate(notes, i + 1, spb, total, adds)
    ELSE AddAfterVelocity(notes, i, spb, total, adds,
                          PyInt(Get(notes[i].velocity, JInt(80))))

Accumulate(notes, i, spb, total, adds) ==
    IF i > Len(notes) THEN [ok |-> TRUE, exc |-> "", adds |-> adds]
    ELSE IF ~Subscript(notes[i].pitch).ok THEN NoAdds("KeyError")
    ELSE AddAfterPitch(notes, i, spb, total, adds, PitchOf(notes[i].pitch))

\* b"RIFF", b"WAVE", b"fmt ", b"data"
RIFF == <<82, 73, 70, 70>>
WAVE == <<87, 65, 86, 69>>
Fmt == <<102, 109, 116, 32>>
Data == <<100, 97, 116, 97>>

\* data_size = len(pcm), two bytes for each sample of the buffer ("<Nh").
DataSize(total_samples) == 2 * total_samples

\* wav.write(struct.pack("<I", 36 + data_size))
RiffSize(data_size) == 36 + data_size

WavHeader(total_samples) ==
    LET data_size == DataSize(total_samples)
        byte_rate == sample_rate * 2
    IN  RIFF \o PackLE32(RiffSize(data_size)) \o WAVE \o Fmt
        \o PackLE32(16) \o PackLE16(1) \o PackLE16(1) \o PackLE32(sample_rate)
        \o PackLE32(byte_rate) \o PackLE16(2) \o PackLE16(16)
        \o Data \o PackLE32(data_size)

\* The function from its last statement to its first: the file,
WavAfterNotes(total, a) ==
    IF ~a.ok THEN WavRaised(a.exc)
    ELSE WavReturned(WavHeader(total), total, a.adds)

\* the buffer of total_samples,
WavAfterTotal(melody, spb, total) ==
    IF ~total.ok THEN WavRaised(total.exc)
    ELSE WavAfterNotes(total.n, Accumulate(melody, 1, spb, total.n, <<>>))

\* max_end found,
WavAfterEnd(melody, spb, m) ==
    IF ~m.ok THEN WavRaised(m.exc)
    ELSE WavAfterTotal(melody, spb, TotalSamples(m.d))

WavAtTempo(melody, spb) ==
    WavAfterEnd(melody, spb, MaxEnd(melody, spb, DZero(FALSE)))

\* the tempo read.
WavAfterTempo(score, t) ==
    IF ~t.ok THEN WavRaised(t.exc)
    ELSE WavAtTempo(score.melody, SecondsPerBeat(ClampTempo(t.n)))

synthesize_wav(score) ==
    WavAfterTempo(score, PyInt(Get(score.tempo_bpm, JInt(90))))

SynthesizeWav ==
    /\ pc = "render"
    /\ wav_bytes.status = "pending"
    /\ wav_bytes' = synthesize_wav(music_json)
    /\ UNCHANGED <<pitch_str, midi, value, varint, music_json, midi_bytes,
                   pc, response, env, speech, ui>>

(***************************************************************************)
(* SpecTempo: build_midi on the one-note score of end-to-end scenario 1,   *)
(* at every tempo.                                                         *)
(***************************************************************************)
MaxTempo == 260

InitRender(tempos, melodies) ==
    /\ \E t \in tempos, m \in melodies :
          music_json = [tempo_bpm |-> t, melody |-> m]
    /\ midi_bytes = Pending
    /\ wav_bytes = WavPending
    /\ pitch_str = <<>>
    /\ midi = NoPitch
    /\ value = 0
    /\ varint = NoVarint
    /\ pc = "render"
    /\ response = NoResponse
    /\ env = NoEnv
    /\ speech = NoSpeech
    /\ ui = NoUi

Note(p, s, d, v) ==
    [pitch |-> p, start_beat |-> s, duration_beats |-> d, velocity |-> v]

Scenario1Melody == <<Note(JStr(<<"C", "4">>), JInt(0), JInt(1), JInt(80))>>

InitTempo ==
    InitRender({JInt(n) : n \in 0..MaxTempo} \cup {Absent}, {Scenario1Melody})

NextTempo == BuildMidi

SpecTempo == InitTempo /\ [][NextTempo]_vars

(***************************************************************************)
(* SpecScore: both renderers applied to a score whose notes have numeric   *)
(* fields as the data model describes them (non-negative start, positive   *)
(* duration, integer velocity, possibly out of range), in any order, with  *)
(* well-formed and malformed pitch tokens.                                 *)
(***************************************************************************)
MaxNotes == 2

\* Sequences of at most n elements of S.
SeqsUpTo(S, n) == UNION {[1..m -> S] : m \in 0..n}

ScorePitches == {JStr(<<"C", "4">>), JStr(<<"B", "b", "3">>), JStr(<<"Z", "9">>)}
\* 0, 2/512 beat (tick 1) and 1 beat (tick 480)
ScoreStarts == {JInt(0), JFrac(2), JInt(1)}
\* 1/512 beat (less than one tick) and 1 beat
ScoreDurations == {JFrac(1), JInt(1)}
ScoreVelocities == {JInt(80), JInt(200)}
\* The tempo of scenario 1, one whose seconds per beat (60 / 90) is no
\* exact float, and a fast one.
ScoreTempos == {JInt(120), JInt(90), JInt(192)}

ScoreNotes ==
    {Note(p, s, d, v) : p \in ScorePitches, s \in ScoreStarts,
                        d \in ScoreDurations, v \in ScoreVelocities}

InitScore == InitRender(ScoreTempos, SeqsUpTo(ScoreNotes, MaxNotes))

NextScore == BuildMidi \/ SynthesizeWav

SpecScore == InitScore /\ [][NextScore]_vars

(***************************************************************************)
(* SpecVelocity: build_midi on two notes of different pitch, the first     *)
(* with every integer velocity around the legal range.                     *)
(***************************************************************************)
MaxVelocity == 300
VelocitiesBelowZero == 40

VelocityMelodies ==
    { <<Note(JStr(<<"C", "4">>), JInt(s), JInt(1), JInt(v)),
        Note(JStr(<<"E", "4">>), JInt(0), JInt(1), w)>> :
        s \in {0, 1}, v \in (-VelocitiesBelowZero)..MaxVelocity,
        w \in {Absent, JInt(200), JInt(-1)} }

InitVelocity == InitRender({JInt(120)}, VelocityMelodies)

NextVelocity == BuildMidi

SpecVelocity == InitVelocity /\ [][NextVelocity]_vars

(***************************************************************************)
(* SpecAnyNotes: build_midi on notes whose fields may hold anything the    *)
(* remote model's JSON can hold: missing keys, text in numeric fields,     *)
(* negative numbers.                                                       *)
(***************************************************************************)
AnyPitches == {JStr(<<"C", "4">>), JStr(<<"Z", "9">>), Absent}
AnyStarts == {JInt(0), JInt(-1), JStr(<<"x">>), Absent}
AnyDurations == {JInt(1), JInt(-1), JStr(<<"x">>), JNaN, Absent}
AnyVelocities == {JInt(80), JInt(200), JStr(<<"f">>), JStr(<<"8", "0", "\n">>),
                  Absent}

AnyNotes ==
    {Note(p, s, d, v) : p \in AnyPitches, s \in AnyStarts,
                        d \in AnyDurations, v \in AnyVelocities}

InitAnyNotes == InitRender({JInt(120)}, SeqsUpTo(AnyNotes, MaxNotes))

NextAnyNotes == BuildMidi

SpecAnyNotes == InitAnyNotes /\ [][NextAnyNotes]_vars

(***************************************************************************)
(* Readers of the emitted bytes, used to state the properties.             *)
(***************************************************************************)
\* Decode a variable-length quantity: base 128, most significant group first.
RECURSIVE DecodeVarint(_, _)
DecodeVarint(bytes, acc) ==
    IF bytes = <<>> THEN acc
    ELSE DecodeVarint(Tail(bytes), acc * 128 + (Head(bytes) % 128))

\* Continuation bit 0x80 set on every byte except the last, clear on the last.
WellFormedVarint(bytes) ==
    /\ Len(bytes) >= 1
    /\ \A i \in 1..(Len(bytes) - 1) : bytes[i] \in 128..255
    /\ bytes[Len(bytes)] \in 0..127

\* Big-endian value of a run of bytes.
RECURSIVE BigEndian(_, _)
BigEndian(bytes, acc) ==
    IF bytes = <<>> THEN acc
    ELSE BigEndian(Tail(bytes), acc * 256 + Head(bytes))

LittleEndian(bytes) == BigEndian(Reverse(bytes), 0)

(***************************************************************************)
(* Properties of pitch_to_midi (SpecPitch)                                 *)
(***************************************************************************)
\* C1: every token of the grammar [A-G][#b]?-?\d+ resolves, without error,
\* to a MIDI number in the closed range [48,72]; "C3" resolves to 48, "C4"
\* to 60 and "C5" to 72.
C1_PitchInRange ==
    (pc = "done" /\ pitch_str \in GrammarTokens) =>
        /\ midi.ok
        /\ midi.midi \in 48..72
        /\ (pitch_str = <<"C", "3">> => midi.midi = 48)
        /\ (pitch_str = <<"C", "4">> => midi.midi = 60)
        /\ (pitch_str = <<"C", "5">> => midi.midi = 72)

\* C1 witness: a token far above the range has been resolved (B#11, whose
\* unfolded value is 156, folded down seven octaves to 72).
C1_Witness ==
    /\ pc = "done"
    /\ pitch_str = <<"B", "#", "1", "1">>
    /\ midi.ok
    /\ midi.midi = 72

\* The same note name (letter and accidental of pitch_str) at octave o.
SameNameAt(o) ==
    PitchToken(PitchMatch(pitch_str).note, PitchMatch(pitch_str).acc, o)

UnfoldedAt(o) ==
    BaseMidi(PitchMatch(pitch_str).note, PitchMatch(pitch_str).acc, o)

\* C2 as stated: the note name of the resolved token, taken at any other
\* octave, resolves to the same final MIDI number.
C2_SameNumberAtEveryOctave ==
    (pc = "done" /\ pitch_str \in GrammarTokens) =>
        \A o \in Octaves : pitch_to_midi(SameNameAt(o)).midi = midi.midi

\* C2 amended: the note name taken at any other octave resolves to a number
\* of the same pitch class (the two differ by 0, 12 or 24), and to the same
\* number whenever both unfolded values lie below 48 or both lie above 72.
C2_SamePitchClass ==
    (pc = "done" /\ pitch_str \in GrammarTokens) =>
        \A o \in Octaves :
          LET other == pitch_to_midi(SameNameAt(o)).midi
              mine  == UnfoldedAt(PitchMatch(pitch_str).octave)
              their == UnfoldedAt(o)
          IN  /\ (other - midi.midi) \in {-24, -12, 0, 12, 24}
              /\ (mine < 48 /\ their < 48) => other = midi.midi
              /\ (mine > 72 /\ their > 72) => other = midi.midi

\* C2 witness: C at an octave below the range has been folded up (to 48),
\* while C4 and C5 stay at 60 and 72.
C2_Witness ==
    /\ pc = "done"
    /\ pitch_str = <<"C", "-", "2">>
    /\ midi.midi = 48
    /\ pitch_to_midi(SameNameAt(5)).midi = 72

(***************************************************************************)
(* Properties of _encode_varint (SpecVarint)                               *)
(***************************************************************************)
\* C3: for a non-negative value the encoding has the continuation bit on
\* every byte but the last, decodes (base 128, most significant group
\* first) to the value, and is <<0>> for 0, <<127>> for 127 and <<129, 0>>
\* for 128.
C3_VarintRoundTrip ==
    (pc = "done" /\ value >= 0) =>
        /\ varint.ok
        /\ WellFormedVarint(varint.bytes)
        /\ DecodeVarint(varint.bytes, 0) = value
        /\ (value = 0 => varint.bytes = <<0>>)
        /\ (value = 127 => varint.bytes = <<127>>)
        /\ (value = 128 => varint.bytes = <<129, 0>>)

\* C3 witness: a value that needs three groups (16384 = 0x81 0x80 0x00).
C3_Witness ==
    /\ pc = "done"
    /\ value = 16384
    /\ varint.bytes = <<129, 128, 0>>

(***************************************************************************)
(* Properties of the emitted MIDI bytes                                    *)
(***************************************************************************)
\* C5: with an integer tempo_bpm t, the track starts with delta 0 and the
\* meta-event FF 51 03 followed by exactly three bytes (the program change
\* 00 C0 00 comes right after them) whose big-endian value is
\* floor(60000000 / b), b being t clamped to [40,200].
C5_TempoEvent ==
    (midi_bytes.status # "pending" /\ music_json.tempo_bpm.t = "int") =>
        LET t == music_json.tempo_bpm.n
            b == IF t < 40 THEN 40 ELSE IF t > 200 THEN 200 ELSE t
            out == midi_bytes.bytes
        IN  /\ midi_bytes.status = "ok"
            /\ SubSeq(out, 23, 26) = <<0, 255, 81, 3>>
            /\ BigEndian(SubSeq(out, 27, 29), 0) = 60000000 \div b
            /\ SubSeq(out, 30, 32) = <<0, 192, 0>>

\* C5 witness: the slowest tempo, whose 1500000 microseconds per beat need
\* all three bytes (0x16 0xE3 0x60), reached from a tempo below the range.
C5_Witness ==
    /\ midi_bytes.status = "ok"
    /\ music_json.tempo_bpm = JInt(12)
    /\ SubSeq(midi_bytes.bytes, 27, 29) = <<22, 227, 96>>

\* A variable-length quantity read at position pos: its value and the
\* position after it.
RECURSIVE ReadVarint(_, _, _)
ReadVarint(bytes, pos, acc) ==
    IF bytes[pos] >= 128
    THEN ReadVarint(bytes, pos + 1, acc * 128 + (bytes[pos] % 128))
    ELSE [v |-> acc * 128 + bytes[pos], next |-> pos + 1]

\* The channel events of a track read from position pos up to the first
\* meta event, each with its absolute tick (the running sum of the deltas).
RECURSIVE ReadEvents(_, _, _)
ReadEvents(bytes, pos, tick) ==
    LET d == ReadVarint(bytes, pos, 0) IN
    IF bytes[d.next] = 255 THEN <<>>
    ELSE <<[tick |-> tick + d.v, status |-> bytes[d.next],
            p1 |-> bytes[d.next + 1], p2 |-> bytes[d.next + 2]]>>
         \o ReadEvents(bytes, d.next + 3, tick + d.v)

\* The note events of a file written by build_midi: they follow the 22
\* bytes of chunk framing, the tempo event (7 bytes) and the program
\* change (3 bytes).
TrackEvents(out) == ReadEvents(out, 33, 0)

(***************************************************************************)
(* Properties of the renders (SpecScore, SpecVelocity, SpecAnyNotes)       *)
(***************************************************************************)
\* C4: in the bytes build_midi returns, no note-on event (0x90) comes
\* before a note-off event (0x80) of the same absolute tick, whatever the
\* order of the melody.
C4_OffBeforeOn ==
    midi_bytes.status = "ok" =>
        LET ev == TrackEvents(midi_bytes.bytes) IN
        \A i, j \in 1..Len(ev) :
            (i < j /\ ev[i].tick = ev[j].tick) =>
                ~(ev[i].status = 144 /\ ev[j].status = 128)

\* C4 witness: a melody given out of chronological order (its first note
\* starts at beat 1, its second at beat 0 and lasts one beat) has been
\* encoded, and tick 480 carries a note-off followed by a note-on.
C4_Witness ==
    /\ midi_bytes.status = "ok"
    /\ Len(music_json.melody) = 2
    /\ music_json.melody[1].start_beat = JInt(1)
    /\ music_json.melody[2].start_beat = JInt(0)
    /\ LET ev == TrackEvents(midi_bytes.bytes) IN
       \E i, j \in 1..Len(ev) :
          /\ i < j
          /\ ev[i].tick = 480 /\ ev[j].tick = 480
          /\ ev[i].status = 128 /\ ev[j].status = 144

\* min(127, max(0, v)), and 80 for a note without velocity.
LegalVelocity(x) ==
    IF x.t = "absent" THEN 80
    ELSE IF x.n < 0 THEN 0 ELSE IF x.n > 127 THEN 127 ELSE x.n

\* C6: build_midi returns without error and, for each of the two notes
\* (C4 = 60 with integer velocity v, E4 = 64), the file holds exactly one
\* note-on of that pitch, whose velocity byte is min(127, max(0, v)).
C6_VelocityClamped ==
    midi_bytes.status # "pending" =>
        /\ midi_bytes.status = "ok"
        /\ LET ev == TrackEvents(midi_bytes.bytes)
               On(p) == {i \in 1..Len(ev) : ev[i].status = 144 /\ ev[i].p1 = p}
           IN  /\ Cardinality(On(60)) = 1
               /\ Cardinality(On(64)) = 1
               /\ \A i \in On(60) :
                     ev[i].p2 = LegalVelocity(music_json.melody[1].velocity)
               /\ \A i \in On(64) :
                     ev[i].p2 = LegalVelocity(music_json.melody[2].velocity)

\* C6 witness: velocity 200 has been emitted as 127.
C6_Witness ==
    /\ midi_bytes.status = "ok"
    /\ music_json.melody[1].velocity = JInt(200)
    /\ \E i \in 1..Len(TrackEvents(midi_bytes.bytes)) :
          LET e == TrackEvents(midi_bytes.bytes)[i]
          IN  e.status = 144 /\ e.p1 = 60 /\ e.p2 = 127

\* C7: the file build_midi returns is MThd, length 6, format 0, one track,
\* division 480, then MTrk and a length field equal to the number of bytes
\* after it, which end with 00 FF 2F 00; in the file synthesize_wav
\* returns, the data size field is twice the number of samples (and the
\* number of PCM bytes) and the RIFF size field is 36 more.
C7_LengthFields ==
    /\ midi_bytes.status = "ok" =>
          LET out == midi_bytes.bytes IN
          /\ SubSeq(out, 1, 14) =
                <<77, 84, 104, 100, 0, 0, 0, 6, 0, 0, 0, 1, 1, 224>>
          /\ SubSeq(out, 15, 18) = <<77, 84, 114, 107>>
          /\ BigEndian(SubSeq(out, 19, 22), 0) = Len(out) - 22
          /\ SubSeq(out, Len(out) - 3, Len(out)) = <<0, 255, 47, 0>>
    /\ wav_bytes.status = "ok" =>
          LET h == wav_bytes.header IN
          /\ Len(h) = 44
          /\ SubSeq(h, 1, 4) = <<82, 73, 70, 70>>
          /\ SubSeq(h, 37, 40) = <<100, 97, 116, 97>>
          /\ LittleEndian(SubSeq(h, 41, 44)) = 2 * wav_bytes.total_samples
          /\ LittleEndian(SubSeq(h, 41, 44)) = wav_bytes.pcm_len
          /\ LittleEndian(SubSeq(h, 5, 8)) = 36 + LittleEndian(SubSeq(h, 41, 44))

\* C7 witness: both files have been written for a two-note melody at tempo
\* 90 that ends after one beat: the track is longer than the fixed events
\* alone and the buffer holds int((60.0 / 90 + 0.3) * 44100) = 42629
\* samples, 85258 bytes of data.
C7_Witness ==
    /\ midi_bytes.status = "ok"
    /\ wav_bytes.status = "ok"
    /\ Len(music_json.melody) = 2
    /\ music_json.tempo_bpm = JInt(90)
    /\ BigEndian(SubSeq(midi_bytes.bytes, 19, 22), 0) > 14
    /\ wav_bytes.total_samples = 42629
    /\ LittleEndian(SubSeq(wav_bytes.header, 41, 44)) = 85258

\* Whether a pitch field of the score parses: of the tokens the scores use,
\* "Z9" alone is outside the grammar.
Parsable(note) == note.pitch # JStr(<<"Z", "9">>)

\* C8: both renderers return; the MIDI file holds exactly one note-on and
\* one note-off for each note with a parsable pitch (counted per pitch
\* number: C4 = 60, Bb3 = 58) and no other event; synthesize_wav adds into
\* the buffer for exactly the notes with a parsable pitch, so that a melody
\* of dropped notes only gives an event-free track and an untouched buffer.
C8_BadPitchDropped ==
    LET mel  == music_json.melody
        Of(p) == {i \in 1..Len(mel) : mel[i].pitch = p}
        keep == {i \in 1..Len(mel) : Parsable(mel[i])}
    IN
    /\ midi_bytes.status # "pending" =>
          /\ midi_bytes.status = "ok"
          /\ LET ev == TrackEvents(midi_bytes.bytes)
                 Ev(st, p) == {i \in 1..Len(ev) : ev[i].status = st /\ ev[i].p1 = p}
             IN  /\ Len(ev) = 2 * Cardinality(keep)
                 /\ \A st \in {144, 128} :
                       /\ Cardinality(Ev(st, 60)) = Cardinality(Of(JStr(<<"C", "4">>)))
                       /\ Cardinality(Ev(st, 58)) = Cardinality(Of(JStr(<<"B", "b", "3">>)))
    /\ wav_bytes.status # "pending" =>
          /\ wav_bytes.status = "ok"
          /\ Len(wav_bytes.adds) = Cardinality(keep)
          /\ {wav_bytes.adds[a].note : a \in 1..Len(wav_bytes.adds)} = keep
          /\ wav_bytes.total_samples >= TailSamples

\* C8 witness: both renders are done for a melody with one malformed and
\* one well-formed pitch; the track holds two events, the buffer one add.
C8_Witness ==
    /\ midi_bytes.status = "ok"
    /\ wav_bytes.status = "ok"
    /\ Len(music_json.melody) = 2
    /\ ~Parsable(music_json.melody[1])
    /\ Parsable(music_json.melody[2])
    /\ Len(TrackEvents(midi_bytes.bytes)) = 2
    /\ Len(wav_bytes.adds) = 1

\* C9 as stated: whatever the fields of the notes hold, build_midi returns
\* a MIDI byte string (it neither raises nor fails to return).
C9_NeverAborts ==
    midi_bytes.status # "pending" => midi_bytes.status = "ok"

(***************************************************************************)
(* SpecApp: one run of the script, from the environment check to the       *)
(* download button.  The run's inputs are the environment (env), what the  *)
(* user did (ui.click, ui.user_text, the recording speech.audio), what the *)
(* speech service answers (speech.answer) and what the remote model        *)
(* answers (response).                                                     *)
(*   speech.answer   "http_error", "connection_error", "not_json" (the     *)
(*                   body is no JSON), "not_object" (JSON, but no object), *)
(*                   "no_match" (RecognitionStatus is not "Success") or    *)
(*                   "success", with speech.text the DisplayText.          *)
(*   response.kind   "http_error", "connection_error", "body_not_json",    *)
(*                   "no_choices", "no_content", "not_json" (the content   *)
(*                   is no JSON), "not_object" or "object": a JSON object  *)
(*                   with the keys response.fields, whose "melody" (when   *)
(*                   present) is the list response.melody or, with         *)
(*                   melody_is_list FALSE, a value that is not a list, and *)
(*                   whose "tempo_bpm" and "assumptions" are the values    *)
(*                   response.tempo and response.assumptions.              *)
(* The elements of a melody list are JSON objects.                         *)
(***************************************************************************)
REQUIRED_FIELDS ==
    {"title", "tempo_bpm", "key", "length_bars", "time_signature", "melody"}

\* str.rstrip("/") and str.strip('"')
RStrip(s, chars) == Reverse(LStrip(Reverse(s), chars))

\* FOUNDRY_API_KEY, FOUNDRY_ENDPOINT, MODEL_DEPLOYMENT, SPEECH_KEY and
\* SPEECH_REGION as the module computes them from the environment.
FOUNDRY_API_KEY(e) == e.FOUNDRY_API_KEY
FOUNDRY_ENDPOINT(e) == RStrip(e.FOUNDRY_ENDPOINT, {"/"})
MODEL_DEPLOYMENT(e) == e.MODEL_DEPLOYMENT_NAME
SPEECH_KEY(e) == e.SPEECH_KEY
SPEECH_REGION(e) == StripChars(e.AZURE_SPEECH_REGION, {"\""})

\* round(d, 1) of a float d >= 0: the float nearest to the multiple of 0.1
\* nearest to d, a tie going to the even multiple.
Round1(d) ==
    LET n      == BNMulSmall(d.m, 10, 0)
        q      == IF d.e >= 0 THEN BNShl(n, d.e) ELSE BNShr(n, -d.e)
        cmp    == IF d.e >= 0 THEN -1
                  ELSE BNCmp(BNLow(n, -d.e), BNShl(<<1>>, -d.e - 1))
        tenths == IF cmp = 1 \/ (cmp = 0 /\ BNOdd(q)) THEN BNAdd(q, <<1>>)
                  ELSE q
    IN  DFromDecimal(FALSE, tenths, -1)

\* _wav_duration(wav_bytes), of a recording of `size` bytes whose header
\* holds the given channels, sample_rate and bits; any exception gives 0.0.
wav_duration(a) ==
    IF a.size < 44 THEN DZero(FALSE)
    ELSE IF a.bits \div 8 = 0 THEN DZero(FALSE)
    ELSE IF a.sample_rate = 0 THEN DZero(FALSE)
    ELSE IF a.channels = 0 THEN DZero(FALSE)
    ELSE Round1(DDivInts((a.size - 44) \div (a.bits \div 8),
                         a.sample_rate * a.channels))

\* transcribe_audio(audio_bytes): the exception it ends with ("" when it
\* returns), the text returned, and whether the request was posted.
transcribe_audio(e, s) ==
    IF SPEECH_KEY(e) = <<>> \/ SPEECH_REGION(e) = <<>>
    THEN [exc |-> "RuntimeError", text |-> <<>>, posted |-> FALSE]
    ELSE
      CASE s.answer \in {"http_error", "connection_error"} ->
              [exc |-> "RuntimeError", text |-> <<>>, posted |-> TRUE]
        [] s.answer = "not_json" ->
              [exc |-> "JSONDecodeError", text |-> <<>>, posted |-> TRUE]
        [] s.answer = "not_object" ->
              [exc |-> "AttributeError", text |-> <<>>, posted |-> TRUE]
        [] s.answer = "no_match" ->
              [exc |-> "RuntimeError", text |-> <<>>, posted |-> TRUE]
        [] s.answer = "success" ->
              IF s.text.t = "absent"
              THEN [exc |-> "", text |-> <<>>, posted |-> TRUE]
              ELSE IF s.text.t = "str"
              THEN [exc |-> "", text |-> Strip(s.text.s), posted |-> TRUE]
              ELSE [exc |-> "AttributeError", text |-> <<>>, posted |-> TRUE]

GoodNote == Note(JStr(<<"C", "4">>), JInt(0), JInt(1), JInt(80))
DroppedNote == Note(JStr(<<"Z", "9">>), JInt(0), JInt(1), JInt(80))
TextNote == Note(JStr(<<"C", "4">>), JInt(0), JStr(<<"x">>), JInt(80))
EarlyNote == Note(JStr(<<"C", "4">>), JInt(-1), JInt(1), JInt(80))

AppMelodies ==
    {<<>>, <<GoodNote>>, <<DroppedNote, GoodNote>>, <<TextNote>>, <<EarlyNote>>}

AppTempos == {JInt(120), JInt(90), JInt(240), JStr(<<"f", "a", "s", "t">>), JNull}

Answer(k, f, l, m, t, a) ==
    [kind |-> k, fields |-> f, melody_is_list |-> l, melody |-> m,
     tempo |-> t, assumptions |-> a]

Responses ==
    {Answer(k, {}, FALSE, <<>>, Absent, Absent) :
        k \in {"http_error", "connection_error", "body_not_json",
               "no_choices", "no_content", "not_json", "not_object"}}
    \cup
    {Answer("object", f, l, m, IF "tempo_bpm" \in f THEN JInt(120) ELSE Absent,
            Absent) :
        f \in SUBSET REQUIRED_FIELDS, l \in BOOLEAN, m \in {<<GoodNote>>}}
    \cup
    {Answer("object", REQUIRED_FIELDS, TRUE, m, t, Absent) :
        m \in AppMelodies, t \in AppTempos}
    \cup
    {Answer("object", REQUIRED_FIELDS, TRUE, <<GoodNote>>, JInt(120), a) :
        a \in {JInt(5), JInt(0), JStr(<<"a">>)}}

\* Mutant: the check of the melody accepts an empty list.
ValidateAnyList(r) ==
    IF REQUIRED_FIELDS \ r.fields # {} THEN "ValueError"
    ELSE IF ~r.melody_is_list THEN "ValueError"
    ELSE ""

\* missing = REQUIRED_FIELDS - set(data.keys()); if missing: raise ...
\* if not isinstance(data["melody"], list) or len(data["melody"]) == 0: raise
\* The exception raised, or "" when data is returned.
Validate(r) ==
    IF REQUIRED_FIELDS \ r.fields # {} THEN "ValueError"
    ELSE IF ~r.melody_is_list \/ Len(r.melody) = 0 THEN "ValueError"
    ELSE ""

\* call_foundry_for_music_json(user_text): the exception it ends with (""
\* when it returns the parsed object), and whether the request was posted.
call_foundry_for_music_json(e, r) ==
    IF \/ FOUNDRY_API_KEY(e) = <<>>
       \/ FOUNDRY_ENDPOINT(e) = <<>>
       \/ MODEL_DEPLOYMENT(e) = <<>>
    THEN [exc |-> "RuntimeError", posted |-> FALSE]
    ELSE
      [posted |-> TRUE,
       exc |-> CASE r.kind \in {"http_error", "connection_error"} -> "RuntimeError"
                 [] r.kind = "body_not_json" -> "ValueError"
                 [] r.kind = "no_choices" -> "KeyError"
                 [] r.kind = "no_content" -> "RuntimeError"
                 [] r.kind = "not_json"   -> "ValueError"
                 [] r.kind = "not_object" -> "AttributeError"
                 [] r.kind = "object"     -> Validate(r)]

\* The score json.loads gave, as the renderers read it.
ScoreOf(r) == [tempo_bpm |-> r.tempo, melody |-> r.melody]

Key == <<"k">>
Endpoint == <<"h", ":", "/", "/", "e", "/">>
Region == <<"\"", "e", "u", "\"">>

GoodEnv ==
    [FOUNDRY_API_KEY |-> Key, FOUNDRY_ENDPOINT |-> Endpoint,
     MODEL_DEPLOYMENT_NAME |-> <<"m">>, SPEECH_KEY |-> Key,
     AZURE_SPEECH_REGION |-> Region]

\* The full configuration, and those that differ from it in one variable.
Environments ==
    {GoodEnv}
    \cup {[GoodEnv EXCEPT ![v] = <<>>] : v \in DOMAIN GoodEnv}
    \cup {[GoodEnv EXCEPT !.FOUNDRY_ENDPOINT = <<"/">>],
          [GoodEnv EXCEPT !.AZURE_SPEECH_REGION = <<"\"", "\"">>]}

Audio(n, c, r, b) == [size |-> n, channels |-> c, sample_rate |-> r, bits |-> b]

\* A tenth of a second and 1.25 seconds of 16-bit mono at 48 kHz
Recording == Audio(44 + 9600, 1, 48000, 16)
LongRecording == Audio(44 + 120000, 1, 48000, 16)

Audios ==
    {Audio(43, 1, 48000, 16), Recording, LongRecording,
     Audio(44 + 9600, 1, 48000, 0), Audio(44 + 9600, 1, 0, 16),
     Audio(44 + 9600, 0, 48000, 16)}

Spoken == JStr(<<"m", " ">>)

Recordings ==
    {NoSpeech}
    \cup {[audio |-> a, answer |-> "success", text |-> Spoken] : a \in Audios}
    \cup {[audio |-> Recording, answer |-> k, text |-> Absent] :
            k \in {"http_error", "connection_error", "not_json", "not_object",
                   "no_match"}}
    \cup {[audio |-> Recording, answer |-> "success", text |-> t] :
            t \in {Absent, JNull, JStr(<<" ">>)}}

\* The inputs of a run: every environment, recording and click with a
\* typical answer of the remote model, and every answer of the remote model
\* with a typical environment and recording.
Input(e, s, r, c, u) ==
    [env |-> e, speech |-> s, response |-> r, click |-> c, user_text |-> u]

Clicks == {"none", "text", "mic"}

TypicalResponses ==
    {Answer("object", REQUIRED_FIELDS, TRUE, <<GoodNote>>, JInt(120), Absent),
     Answer("object", REQUIRED_FIELDS, TRUE, <<>>, JInt(120), Absent),
     Answer("http_error", {}, FALSE, <<>>, Absent, Absent)}

TypicalEnvironments ==
    {GoodEnv, [GoodEnv EXCEPT !.FOUNDRY_ENDPOINT = <<"/">>]}

TypicalRecordings ==
    {NoSpeech, [audio |-> Recording, answer |-> "success", text |-> Spoken]}

Runs ==
    {Input(e, s, r, c, u) :
        e \in Environments, s \in Recordings, r \in TypicalResponses,
        c \in Clicks, u \in {<<>>, <<" ">>, <<"m">>}}
    \cup
    {Input(e, s, r, c, <<"m">>) :
        e \in TypicalEnvironments, s \in TypicalRecordings, r \in Responses,
        c \in Clicks}

InitApp ==
    /\ pc = "start"
    /\ \E i \in Runs :
          /\ env = i.env
          /\ speech = i.speech
          /\ response = i.response
          /\ ui = [NoUi EXCEPT !.click = i.click, !.user_text = i.user_text]
    /\ music_json = NoScore
    /\ midi_bytes = Pending
    /\ wav_bytes = WavPending
    /\ pitch_str = <<>>
    /\ midi = NoPitch
    /\ value = 0
    /\ varint = NoVarint

\* _missing_env = [v for v in (...) if not os.getenv(v)]
\* if _missing_env: st.error(...); st.stop()
CheckEnv ==
    /\ pc = "start"
    /\ IF \E v \in {"FOUNDRY_API_KEY", "FOUNDRY_ENDPOINT", "MODEL_DEPLOYMENT_NAME"} :
            env[v] = <<>>
       THEN pc' = "stopped" /\ ui' = [ui EXCEPT !.errors = Append(@, "env")]
       ELSE pc' = "record" /\ UNCHANGED ui
    /\ UNCHANGED <<pitch_str, midi, value, varint, music_json, midi_bytes,
                   wav_bytes, response, env, speech>>

\* if audio_bytes: dur = _wav_duration(audio_bytes); st.metric(...)
\*     try: transcribed_text = transcribe_audio(audio_bytes)
\*     except RuntimeError as e: st.error(...)
Transcribe ==
    /\ pc = "record"
    /\ IF speech.audio.size = 0 THEN pc' = "input" /\ UNCHANGED ui
       ELSE
         LET t == transcribe_audio(env, speech)
             shown == [ui EXCEPT
                         !.duration = wav_duration(speech.audio),
                         !.calls = @ \o <<"wav_duration", "transcribe_audio">>,
                         !.posts = IF t.posted THEN Append(@, "speech") ELSE @,
                         !.transcribed_text = t.text]
         IN  CASE t.exc = "" -> pc' = "input" /\ ui' = shown
               [] t.exc = "RuntimeError" ->
                    /\ pc' = "input"
                    /\ ui' = [shown EXCEPT !.errors = Append(@, "transcribe")]
               [] OTHER ->
                    /\ pc' = "crashed"
                    /\ ui' = [shown EXCEPT !.errors = Append(@, "uncaught")]
    /\ UNCHANGED <<pitch_str, midi, value, varint, music_json, midi_bytes,
                   wav_bytes, response, env, speech>>

\* user_input of the flow that was started: the text area's text stripped,
\* or the transcription.
UserInput ==
    IF ui.click = "text" THEN Strip(ui.user_text) ELSE ui.transcribed_text

\* generate, and `if not user_input: st.warning(...); st.stop()`
ChooseFlow ==
    /\ pc = "input"
    /\ IF ui.click = "text" \/ (ui.click = "mic" /\ ui.transcribed_text # <<>>)
       THEN IF UserInput = <<>>
            THEN pc' = "stopped" /\ ui' = [ui EXCEPT !.warning = "input"]
            ELSE pc' = "foundry" /\ UNCHANGED ui
       ELSE pc' = "end" /\ UNCHANGED ui
    /\ UNCHANGED <<pitch_str, midi, value, varint, music_json, midi_bytes,
                   wav_bytes, response, env, speech>>

\* music_data = call_foundry_for_music_json(...), with its two handlers,
\* and the display of the score: `for a in music_data["assumptions"]` runs
\* when the value is truthy and raises TypeError when it is a number.
CallFoundry ==
    /\ pc = "foundry"
    /\ LET r == call_foundry_for_music_json(env, response)
           called == [ui EXCEPT
                        !.calls = Append(@, "call_foundry_for_music_json"),
                        !.posts = IF r.posted THEN Append(@, "foundry") ELSE @]
       IN  CASE r.exc = "" ->
                  /\ music_json' = ScoreOf(response)
                  /\ IF response.assumptions.t = "int" /\ response.assumptions.n # 0
                     THEN /\ pc' = "crashed"
                          /\ ui' = [called EXCEPT !.success = TRUE,
                                                  !.errors = Append(@, "uncaught")]
                     ELSE /\ pc' = "midi"
                          /\ ui' = [called EXCEPT !.success = TRUE]
             [] r.exc = "ValueError" ->
                  /\ ui' = [called EXCEPT !.errors = Append(@, "json")]
                  /\ pc' = "stopped"
                  /\ UNCHANGED music_json
             [] r.exc = "RuntimeError" ->
                  /\ ui' = [called EXCEPT !.errors = Append(@, "foundry")]
                  /\ pc' = "stopped"
                  /\ UNCHANGED music_json
             [] OTHER ->
                  /\ ui' = [called EXCEPT !.errors = Append(@, "uncaught")]
                  /\ pc' = "crashed"
                  /\ UNCHANGED music_json
    /\ UNCHANGED <<pitch_str, midi, value, varint, midi_bytes, wav_bytes,
                   response, env, speech>>

\* try: midi_bytes = build_midi(music_data)
\* except Exception as e: st.error(...); st.stop()
RenderMidi ==
    /\ pc = "midi"
    /\ midi_bytes' = build_midi(music_json)
    /\ IF midi_bytes'.status = "ok"
       THEN pc' = "wav" /\ ui' = [ui EXCEPT !.calls = Append(@, "build_midi")]
       ELSE /\ pc' = "stopped"
            /\ ui' = [ui EXCEPT !.calls = Append(@, "build_midi"),
                                !.errors = Append(@, "midi")]
    /\ UNCHANGED <<pitch_str, midi, value, varint, music_json, wav_bytes,
                   response, env, speech>>

\* try: wav_bytes = synthesize_wav(music_data)
\* except Exception as e: wav_bytes = None; st.warning(...)
RenderWav ==
    /\ pc = "wav"
    /\ wav_bytes' = synthesize_wav(music_json)
    /\ ui' = [ui EXCEPT !.calls = Append(@, "synthesize_wav"),
                        !.warning = IF wav_bytes'.status = "ok" THEN @
                                    ELSE "audio"]
    /\ pc' = "done"
    /\ UNCHANGED <<pitch_str, midi, value, varint, music_json, midi_bytes,
                   response, env, speech>>

NextApp ==
    CheckEnv \/ Transcribe \/ ChooseFlow \/ CallFoundry \/ RenderMidi
    \/ RenderWav

SpecApp == InitApp /\ [][NextApp]_vars

\* Whether the answer is a score with every required field and a non-empty
\* melody list.
StructurallyValid(r) ==
    /\ r.kind = "object"
    /\ \A f \in {"title", "tempo_bpm", "key", "length_bars",
                 "time_signature", "melody"} : f \in r.fields
    /\ r.melody_is_list
    /\ r.melody # <<>>

Called(f) == \E i \in 1..Len(ui.calls) : ui.calls[i] = f

\* The call of f comes after a call of g.
CalledAfter(f, g) ==
    \A i \in 1..Len(ui.calls) :
        ui.calls[i] = f => \E j \in 1..(i - 1) : ui.calls[j] = g

\* C10: a renderer is called only in a run whose call of
\* call_foundry_for_music_json came first and returned a structurally valid
\* score, the one that is rendered; and once that call has ended on an
\* answer that is an object with a missing field or an empty or non-list
\* melody, the run has stopped on the error shown for it and neither
\* renderer has been called.
C10_NoRenderOnInvalid ==
    /\ (Called("build_midi") \/ Called("synthesize_wav")) =>
          /\ CalledAfter("build_midi", "call_foundry_for_music_json")
          /\ CalledAfter("synthesize_wav", "call_foundry_for_music_json")
          /\ StructurallyValid(response)
          /\ music_json.melody = response.melody
          /\ music_json.tempo_bpm = response.tempo
    /\ (Called("call_foundry_for_music_json") /\ "foundry" \in Range(ui.posts)
        /\ response.kind = "object" /\ ~StructurallyValid(response)) =>
          /\ ui.errors # <<>>
          /\ ui.errors[Len(ui.errors)] = "json"
          /\ pc = "stopped"
          /\ ~Called("build_midi")
          /\ ~Called("synthesize_wav")

\* C10 witness: a run has ended on the error for an object that has every
\* required field but an empty melody list, with the remote call made and
\* no renderer called.
C10_Witness ==
    /\ pc = "stopped"
    /\ response.kind = "object"
    /\ response.fields = REQUIRED_FIELDS
    /\ response.melody_is_list
    /\ response.melody = <<>>
    /\ ui.errors = <<"json">>
    /\ ui.calls = <<"call_foundry_for_music_json">>
    /\ ui.posts = <<"foundry">>

(***************************************************************************)
(* Properties of the event ticks (SpecScore)                               *)
(***************************************************************************)
\* The number of beats of a numeric field, in units of 1 / BeatDen beat.
BeatUnits(x) == IF x.t = "int" THEN x.n * BeatDen ELSE x.n

\* round(beats * 480) and floor(beats * 480) of a non-negative number of
\* beats given in units of 1 / BeatDen: the nearest integer (ties to even,
\* as Python's round), and the integer part.
RoundedTicks(k) ==
    LET n == 2 * k * 480 + BeatDen
        q == n \div (2 * BeatDen)
    IN  IF n % (2 * BeatDen) = 0 /\ q % 2 = 1 THEN q - 1 ELSE q

WholeTicks(k) == (k * 480) \div BeatDen

\* The MIDI number of the two well-formed pitch tokens the scores use.
PitchNumber(note) == IF note.pitch = JStr(<<"C", "4">>) THEN 60 ELSE 58

\* The ticks a note's events are expected at: with "round", at
\* round(start_beat * 480) and max(1, round(duration_beats * 480)) later;
\* with "whole", the same with the integer parts.
OnTick(note, how) ==
    IF how = "round" THEN RoundedTicks(BeatUnits(note.start_beat))
    ELSE WholeTicks(BeatUnits(note.start_beat))

OffTick(note, how) ==
    OnTick(note, how)
    + Max2(1, IF how = "round"
              THEN RoundedTicks(BeatUnits(note.duration_beats))
              ELSE WholeTicks(BeatUnits(note.duration_beats)))

\* The events read back from the file agree with the notes when, for every
\* surviving note, the file holds as many note-ons of its pitch at the
\* note's on tick, and as many note-offs of its pitch at its off tick, as
\* the melody has surviving notes with that pitch and that tick.
TicksAgree(how) ==
    LET mel  == music_json.melody
        keep == {i \in 1..Len(mel) : Parsable(mel[i])}
        ev   == TrackEvents(midi_bytes.bytes)
        Ev(st, p, t) ==
            {e \in 1..Len(ev) : ev[e].status = st /\ ev[e].p1 = p /\ ev[e].tick = t}
        SameOn(i) ==
            {j \in keep : PitchNumber(mel[j]) = PitchNumber(mel[i])
                          /\ OnTick(mel[j], how) = OnTick(mel[i], how)}
        SameOff(i) ==
            {j \in keep : PitchNumber(mel[j]) = PitchNumber(mel[i])
                          /\ OffTick(mel[j], how) = OffTick(mel[i], how)}
    IN  \A i \in keep :
          /\ Cardinality(Ev(144, PitchNumber(mel[i]), OnTick(mel[i], how)))
                = Cardinality(SameOn(i))
          /\ Cardinality(Ev(128, PitchNumber(mel[i]), OffTick(mel[i], how)))
                = Cardinality(SameOff(i))
          /\ OffTick(mel[i], how) > OnTick(mel[i], how)

\* C11 as stated: every surviving note has its note-on at
\* round(start_beat * 480) and its note-off max(1, round(duration_beats *
\* 480)) ticks later.
C11_RoundedTicks ==
    midi_bytes.status = "ok" => TicksAgree("round")

\* C11 amended: every surviving note has its note-on at the integer part of
\* start_beat * 480 and its note-off max(1, integer part of duration_beats *
\* 480) ticks later, so a note never lasts zero ticks.
C11_WholeTicks ==
    midi_bytes.status = "ok" => TicksAgree("whole")

\* C11 witness: a note that starts at 2/512 beat (1.875 ticks) and lasts
\* 1/512 beat (0.9375 tick) has been encoded with its note-on at tick 1
\* and its note-off at tick 2.
C11_Witness ==
    /\ midi_bytes.status = "ok"
    /\ Len(music_json.melody) = 1
    /\ music_json.melody[1].pitch = JStr(<<"C", "4">>)
    /\ music_json.melody[1].start_beat = JFrac(2)
    /\ music_json.melody[1].duration_beats = JFrac(1)
    /\ LET ev == TrackEvents(midi_bytes.bytes)
       IN  /\ Len(ev) = 2
           /\ ev[1].status = 144 /\ ev[1].tick = 1
           /\ ev[2].status = 128 /\ ev[2].tick = 2

\* The delta-times written in the file, in stream order: the end-of-track
\* event's delta is the last one.
RECURSIVE ReadDeltas(_, _)
ReadDeltas(bytes, pos) ==
    LET v == ReadVarint(bytes, pos, 0)
    IN  IF bytes[v.next] = 255 THEN <<v.v>>
        ELSE <<v.v>> \o ReadDeltas(bytes, v.next + 3)

RECURSIVE SumTo(_, _)
SumTo(s, n) == IF n = 0 THEN 0 ELSE SumTo(s, n - 1) + s[n]

\* The absolute ticks of the events of the surviving notes, as a count per
\* tick.
EventsDueAt(t) ==
    LET mel  == music_json.melody
        keep == {i \in 1..Len(mel) : Parsable(mel[i])}
    IN  Cardinality({i \in keep : OnTick(mel[i], "whole") = t})
        + Cardinality({i \in keep : OffTick(mel[i], "whole") = t})

\* C12: for a melody with non-negative start beats, in any order, build_midi
\* returns a file in which every delta is non-negative, the running sum of
\* the deltas at each event is that event's absolute tick (the file holds,
\* at every tick, exactly the events due at that tick), and the absolute
\* ticks never decrease along the stream.
C12_DeltasFollowTicks ==
    midi_bytes.status # "pending" =>
      /\ midi_bytes.status = "ok"
      /\ LET ev     == TrackEvents(midi_bytes.bytes)
             deltas == ReadDeltas(midi_bytes.bytes, 33)
             mel    == music_json.melody
             keep   == {i \in 1..Len(mel) : Parsable(mel[i])}
             due    == {OnTick(mel[i], "whole") : i \in keep}
                       \cup {OffTick(mel[i], "whole") : i \in keep}
         IN  /\ Len(ev) = 2 * Cardinality(keep)
             /\ Len(deltas) = Len(ev) + 1
             /\ \A e \in 1..Len(ev) :
                  /\ deltas[e] >= 0
                  /\ ev[e].tick = SumTo(deltas, e)
                  /\ ev[e].tick \in due
                  /\ e > 1 => ev[e].tick >= ev[e - 1].tick
                  /\ deltas[e] = ev[e].tick - (IF e = 1 THEN 0 ELSE ev[e - 1].tick)
             /\ \A t \in due :
                  Cardinality({e \in 1..Len(ev) : ev[e].tick = t}) = EventsDueAt(t)

\* C12 witness: a melody whose first note starts at beat 1 and whose second
\* note starts at beat 0, one beat each, has been encoded with deltas
\* 0, 480, 0, 480: events at ticks 0, 480, 480, 960.
C12_Witness ==
    /\ midi_bytes.status = "ok"
    /\ Len(music_json.melody) = 2
    /\ \A i \in 1..2 : Parsable(music_json.melody[i])
    /\ music_json.melody[1].start_beat = JInt(1)
    /\ music_json.melody[2].start_beat = JInt(0)
    /\ ReadDeltas(midi_bytes.bytes, 33) = <<0, 480, 0, 480, 0>>
    /\ LET ev == TrackEvents(midi_bytes.bytes)
       IN  /\ Len(ev) = 4
           /\ ev[1].tick = 0 /\ ev[2].tick = 480
           /\ ev[3].tick = 480 /\ ev[4].tick = 960

\* C13 as stated: build_midi completes on every finite melody with bounded
\* numeric fields: in every call the loop of _encode_varint reaches value 0
\* for each delta it is given, so that no call ends with the MemoryError of
\* a loop that cannot reach it (the folding loops of pitch_to_midi are
\* bounded recursions of the model and always end).
C13_BuildMidiTerminates ==
    midi_bytes.exc # "MemoryError"

====
